---- MODULE Spec2Model ----
(***************************************************************************)
(* ESG assessment engine: the input validator (ESGDataValidator,           *)
(* backend/app/core/data_validator.py), the score engine with its carbon   *)
(* footprint, compliance rates and benchmark comparison (ESGCalculator,    *)
(* backend/app/core/esg_calculator.py) and the order in which              *)
(* generate_report (backend/app/core/report_engine.py) calls them.         *)
(*                                                                         *)
(* Python values are tagged records [t, n, s]: t is the dynamic type, n    *)
(* the number carried by an int/float/bool, s the text carried by a str.   *)
(* A dict key that is not present is the value with tag "absent".          *)
(* Floating-point results are exact rationals <<num, den>>.                *)
(***************************************************************************)
EXTENDS Integers, Sequences, FiniteSets, TLC

VARIABLES company, locations, answers, tasks, sector, frameworks, pc, validation, category,
          sub_score, scores, footprint, rates, comparison

vars ==
  <<company, locations, answers, tasks, sector, frameworks, pc, validation, category, sub_score,
    scores, footprint, rates, comparison>>

\* ------------------------------------------------------------------------
\* Bounds of the model
\* ------------------------------------------------------------------------
MaxLocs == 2
MaxAnswers == 2
MaxTasks == 2

\* ------------------------------------------------------------------------
\* Python values
\* ------------------------------------------------------------------------
Absent == [t |-> "absent", n |-> 0, s |-> ""]
PyNone == [t |-> "null", n |-> 0, s |-> ""]
PyInt(k) == [t |-> "int", n |-> k, s |-> ""]
PyFloat(k) == [t |-> "float", n |-> k, s |-> ""]
PyStr(x) == [t |-> "str", n |-> 0, s |-> x]
PyBool(b) == [t |-> "bool", n |-> IF b THEN 1 ELSE 0, s |-> ""]

\* `key in d`
Has(v) == v.t # "absent"

\* bool(v): None, 0, "" and False are falsy
Truthy(v) ==
  CASE v.t = "null" -> FALSE
    [] v.t \in {"int", "float", "bool"} -> v.n # 0
    [] v.t = "str" -> v.s # ""
    [] OTHER -> TRUE

\* isinstance(v, (int, float)); bool is a subclass of int
IsIntOrFloat(v) == v.t \in {"int", "float", "bool"}

\* isinstance(v, int)
IsInt(v) == v.t \in {"int", "bool"}

\* v < k, v > k, a + v: TypeError unless v is a number
ArithRaises(v) == ~ IsIntOrFloat(v)

\* ------------------------------------------------------------------------
\* Exact rationals <<num, den>>, den > 0, in lowest terms
\* ------------------------------------------------------------------------
RECURSIVE Gcd(_, _)
Gcd(a, b) == IF b = 0 THEN a ELSE Gcd(b, a % b)

Abs(a) == IF a < 0 THEN -a ELSE a

Rat(a, b) ==
  LET g == Gcd(Abs(a), b)
  IN  IF a = 0 THEN <<0, 1>> ELSE <<a \div g, b \div g>>

RInt(a) == <<a, 1>>
\* the operands are reduced before they are multiplied, so that the
\* intermediate products stay small
RAdd(x, y) ==
  LET g == Gcd(x[2], y[2])
  IN  Rat(x[1] * (y[2] \div g) + y[1] * (x[2] \div g), (x[2] \div g) * y[2])
RSub(x, y) == RAdd(x, <<-y[1], y[2]>>)
RMul(x, y) ==
  LET g1 == Gcd(Abs(x[1]), y[2])
      g2 == Gcd(Abs(y[1]), x[2])
  IN  Rat((x[1] \div g1) * (y[1] \div g2), (x[2] \div g2) * (y[2] \div g1))
\* x / y for y > 0
RDiv(x, y) == RMul(x, <<y[2], y[1]>>)
\* x / d for an integer d # 0
RDivInt(x, d) == IF d > 0 THEN RMul(x, <<1, d>>) ELSE RMul(x, <<-1, -d>>)
RLe(x, y) ==
  LET g == Gcd(x[2], y[2])
  IN  x[1] * (y[2] \div g) <= y[1] * (x[2] \div g)
RLt(x, y) ==
  LET g == Gcd(x[2], y[2])
  IN  x[1] * (y[2] \div g) < y[1] * (x[2] \div g)
RMax(x, y) == IF RLe(x, y) THEN y ELSE x
RMin(x, y) == IF RLe(x, y) THEN x ELSE y

\* ------------------------------------------------------------------------
\* Sequence helpers
\* ------------------------------------------------------------------------
RECURSIVE Flatten(_)
Flatten(ss) == IF ss = <<>> THEN <<>> ELSE Head(ss) \o Flatten(Tail(ss))

RECURSIVE SumSeq(_)
SumSeq(s) == IF s = <<>> THEN 0 ELSE Head(s) + SumSeq(Tail(s))

RECURSIVE RSumSeq(_)
RSumSeq(s) == IF s = <<>> THEN RInt(0) ELSE RAdd(Head(s), RSumSeq(Tail(s)))

Count(s, P(_)) == Cardinality({i \in 1..Len(s) : P(s[i])})

SeqsUpTo(S, k) == UNION {[1..m -> S] : m \in 0..k}

\* ------------------------------------------------------------------------
\* data_validator.py: ValidationSeverity, ValidationIssue
\* ------------------------------------------------------------------------
ERROR == "error"
WARNING == "warning"
INFO == "info"

\* field is the path base, idx the list index or question number in the
\* path (-1 when there is none), sub the rest of the path
ValidationIssue(sev, fld, idx, sub, msg) ==
  [severity |-> sev, field |-> fld, idx |-> idx, sub |-> sub, message |-> msg]

required_company_fields == <<"name", "sector", "employees", "establishedYear">>
required_location_fields == <<"name", "totalFloorArea", "utilities">>
required_utility_fields == <<"electricity", "water">>
optional_utilities == <<"districtCooling", "naturalGas", "lpg">>
valid_sectors ==
  {"hospitality", "construction", "manufacturing", "education", "healthcare",
   "logistics", "retail", "professional_services"}
valid_categories == {"environmental", "social", "governance"}

MinYear == 1900
MaxYear == 2024
MaxFloorArea == 1000000

\* ------------------------------------------------------------------------
\* _validate_company_data
\* ------------------------------------------------------------------------
validate_company_data(c) ==
  LET req(f) ==
        IF ~ Has(c[f]) \/ ~ Truthy(c[f])
        THEN <<ValidationIssue(ERROR, "company", -1, <<f>>, "Required field is missing or empty")>>
        ELSE <<>>
      emp ==
        IF Has(c.employees) /\ (~ IsIntOrFloat(c.employees) \/ c.employees.n <= 0)
        THEN <<ValidationIssue(WARNING, "company", -1, <<"employees">>, "Employee count should be a positive number")>>
        ELSE <<>>
      yr ==
        IF Has(c.establishedYear)
           /\ (~ IsInt(c.establishedYear) \/ c.establishedYear.n < MinYear
               \/ c.establishedYear.n > MaxYear)
        THEN <<ValidationIssue(WARNING, "company", -1, <<"establishedYear">>, "Establishment year seems invalid")>>
        ELSE <<>>
      sec ==
        IF Has(c.sector) /\ ~ (c.sector.t = "str" /\ c.sector.s \in valid_sectors)
        THEN <<ValidationIssue(WARNING, "company", -1, <<"sector">>, "Sector not recognized for benchmarking")>>
        ELSE <<>>
  IN  Flatten([i \in 1..Len(required_company_fields) |-> req(required_company_fields[i])])
        \o emp \o yr \o sec

\* ------------------------------------------------------------------------
\* _validate_utilities_data
\* A utilities value is [t, r]: t its dynamic type ("absent", "null" or
\* "dict") and r the reading under each utility kind. A reading is
\* [t, mc]: t is "absent" (no such key), "dict" (a record) or "other" (not
\* a record), mc its monthlyConsumption.
\* ------------------------------------------------------------------------
UtilityKinds == {"electricity", "water", "districtCooling", "naturalGas", "lpg"}

\* .get("monthlyConsumption", 0)
monthlyConsumption(reading) == IF Has(reading.mc) THEN reading.mc ELSE PyInt(0)

\* utilities[utility].get(...) raises AttributeError unless the reading is a
\* dict; `utility not in utilities` raises TypeError when utilities is None;
\* `consumption < 0` raises TypeError unless consumption is a number
validate_utilities_raises(u) ==
  \/ u.t = "null"
  \/ /\ u.t = "dict"
     /\ \/ \E k \in {"electricity", "water"} : u.r[k].t = "other"
        \/ \E k \in {"districtCooling", "naturalGas", "lpg"} :
              \/ u.r[k].t = "other"
              \/ u.r[k].t = "dict" /\ ArithRaises(monthlyConsumption(u.r[k]))

validate_utilities_data(u, i) ==
  LET req(k) ==
        IF u.r[k].t = "absent"
        THEN <<ValidationIssue(WARNING, "locations", i, <<"utilities", k>>, "Missing consumption data")>>
        ELSE LET consumption == monthlyConsumption(u.r[k])
             IN  IF ~ IsIntOrFloat(consumption) \/ consumption.n < 0
                 THEN <<ValidationIssue(ERROR, "locations", i, <<"utilities", k, "monthlyConsumption">>, "consumption must be non-negative")>>
                 ELSE IF consumption.n = 0
                 THEN <<ValidationIssue(WARNING, "locations", i, <<"utilities", k, "monthlyConsumption">>, "Zero consumption seems unusual")>>
                 ELSE <<>>
      opt(k) ==
        IF u.r[k].t # "absent" /\ monthlyConsumption(u.r[k]).n < 0
        THEN <<ValidationIssue(ERROR, "locations", i, <<"utilities", k, "monthlyConsumption">>, "consumption cannot be negative")>>
        ELSE <<>>
  IN  Flatten([j \in 1..Len(required_utility_fields) |-> req(required_utility_fields[j])])
        \o Flatten([j \in 1..Len(optional_utilities) |-> opt(optional_utilities[j])])

\* bool(utilities): a dict is truthy when it has a key
UtilitiesTruthy(u) == u.t = "dict" /\ \E k \in UtilityKinds : u.r[k].t # "absent"

\* `field in location and location[field]`
LocationFieldPopulated(loc, f) ==
  IF f = "utilities" THEN UtilitiesTruthy(loc.utilities)
  ELSE Has(loc[f]) /\ Truthy(loc[f])

\* ------------------------------------------------------------------------
\* _validate_location_data
\* ------------------------------------------------------------------------
validate_location_raises(l) ==
  \E i \in 1..Len(l) : l[i].utilities.t # "absent" /\ validate_utilities_raises(l[i].utilities)

validate_one_location(loc, i) ==
  LET req(f) ==
        IF ~ LocationFieldPopulated(loc, f)
        THEN <<ValidationIssue(ERROR, "locations", i, <<f>>, "Required location field is missing")>>
        ELSE <<>>
      area == loc.totalFloorArea
      ar ==
        IF ~ Has(area) THEN <<>>
        ELSE IF ~ IsIntOrFloat(area) \/ area.n <= 0
        THEN <<ValidationIssue(ERROR, "locations", i, <<"totalFloorArea">>, "Floor area must be a positive number")>>
        ELSE IF area.n > MaxFloorArea
        THEN <<ValidationIssue(WARNING, "locations", i, <<"totalFloorArea">>, "Floor area seems unusually large")>>
        ELSE <<>>
      ut ==
        IF loc.utilities.t # "absent" THEN validate_utilities_data(loc.utilities, i) ELSE <<>>
  IN  Flatten([j \in 1..Len(required_location_fields) |-> req(required_location_fields[j])])
        \o ar \o ut

validate_location_data(l) ==
  IF l = <<>>
  THEN <<ValidationIssue(ERROR, "locations", -1, <<>>, "At least one location is required for carbon footprint calculations")>>
  ELSE Flatten([i \in 1..Len(l) |-> validate_one_location(l[i], i - 1)])

\* ------------------------------------------------------------------------
\* _validate_scoping_answers
\* The answers dict is the sequence of its values in insertion order; the
\* question id of an entry is its position. An entry is [t, question,
\* answer, frameworks, category] with t = "dict" for a record and "other"
\* for anything else. A frameworks value is [t, l]: "absent" or a "list" l.
\* ------------------------------------------------------------------------
answer_required_fields == <<"question", "answer", "frameworks", "category">>

\* answer_data.get("answer") is None or == ""
Unanswered(a) ==
  ~ Has(a.answer) \/ a.answer.t = "null" \/ (a.answer.t = "str" /\ a.answer.s = "")

AnswerHasField(a, f) == IF f = "frameworks" THEN a.frameworks.t # "absent" ELSE Has(a[f])

validate_one_answer(a, q) ==
  IF a.t # "dict"
  THEN <<ValidationIssue(ERROR, "scoping_answers", q, <<>>, "Invalid answer format")>>
  ELSE
    LET req(f) ==
          IF ~ AnswerHasField(a, f)
          THEN <<ValidationIssue(WARNING, "scoping_answers", q, <<f>>, "Missing field in answer data")>>
          ELSE <<>>
        ans ==
          IF Unanswered(a)
          THEN <<ValidationIssue(INFO, "scoping_answers", q, <<"answer">>, "Question not answered")>>
          ELSE <<>>
        cat ==
          IF Has(a.category) /\ Truthy(a.category)
             /\ ~ (a.category.t = "str" /\ a.category.s \in valid_categories)
          THEN <<ValidationIssue(WARNING, "scoping_answers", q, <<"category">>, "Invalid ESG category")>>
          ELSE <<>>
    IN  Flatten([j \in 1..Len(answer_required_fields) |-> req(answer_required_fields[j])])
          \o ans \o cat

unanswered_count(a) == Cardinality({q \in 1..Len(a) : a[q].t = "dict" /\ Unanswered(a[q])})

validate_scoping_answers(a) ==
  IF a = <<>>
  THEN <<ValidationIssue(ERROR, "scoping_answers", -1, <<>>, "ESG scoping questionnaire responses are required")>>
  ELSE Flatten([q \in 1..Len(a) |-> validate_one_answer(a[q], q)])
         \o (IF 2 * unanswered_count(a) > Len(a)
             THEN <<ValidationIssue(WARNING, "scoping_answers", -1, <<>>, "Many questions remain unanswered")>>
             ELSE <<>>)

\* ------------------------------------------------------------------------
\* _validate_tasks_data
\* A task is [title, category, status, priority, frameworks].
\* ------------------------------------------------------------------------
task_required_fields == <<"title", "category", "status", "priority">>
valid_statuses == {"completed", "in_progress", "to_do"}

StatusIs(task, x) == task.status.t = "str" /\ task.status.s = x
PriorityIs(task, x) == task.priority.t = "str" /\ task.priority.s = x

StatusValid(task) == task.status.t = "str" /\ task.status.s \in valid_statuses

validate_one_task(task, i) ==
  LET req(f) ==
        IF ~ Has(task[f]) \/ ~ Truthy(task[f])
        THEN <<ValidationIssue(WARNING, "tasks", i, <<f>>, "Task missing field")>>
        ELSE <<>>
      st ==
        IF ~ StatusValid(task)
        THEN <<ValidationIssue(WARNING, "tasks", i, <<"status">>, "Invalid task status")>>
        ELSE <<>>
  IN  Flatten([j \in 1..Len(task_required_fields) |-> req(task_required_fields[j])]) \o st

completed_count(t) == Cardinality({i \in 1..Len(t) : StatusValid(t[i]) /\ StatusIs(t[i], "completed")})

high_priority_incomplete(t) ==
  Cardinality({i \in 1..Len(t) : PriorityIs(t[i], "high") /\ ~ StatusIs(t[i], "completed")})

LowCompletionRate == 30

validate_tasks_data(t) ==
  IF t = <<>>
  THEN <<ValidationIssue(WARNING, "tasks", -1, <<>>, "No tasks found")>>
  ELSE Flatten([i \in 1..Len(t) |-> validate_one_task(t[i], i - 1)])
         \o (IF completed_count(t) * 100 < LowCompletionRate * Len(t)
             THEN <<ValidationIssue(INFO, "tasks", -1, <<>>, "Low task completion rate")>>
             ELSE <<>>)
         \o (IF high_priority_incomplete(t) > 0
             THEN <<ValidationIssue(WARNING, "tasks", -1, <<>>, "high-priority tasks incomplete")>>
             ELSE <<>>)

\* ------------------------------------------------------------------------
\* _validate_data_consistency
\* ------------------------------------------------------------------------
\* loc.get("totalFloorArea", 0)
FloorAreaOrZero(loc) == IF Has(loc.totalFloorArea) THEN loc.totalFloorArea ELSE PyInt(0)

total_area(l) == SumSeq([i \in 1..Len(l) |-> FloorAreaOrZero(l[i]).n])

\* the consistency check reading company_data["employees"] without the
\* `in` guard: KeyError when the key is missing
validate_data_consistency_raises_unguarded(c, l) ==
  \/ ~ Has(c.employees)
  \/ /\ l # <<>>
     /\ \/ \E i \in 1..Len(l) : ArithRaises(IF Has(l[i].totalFloorArea) THEN l[i].totalFloorArea ELSE PyInt(0))
        \/ ArithRaises(c.employees)

\* sum(...) over a floor area that is no number raises TypeError, and so does
\* `employees > 0`, which is evaluated only when total_area > 0
validate_data_consistency_raises(c, l) ==
  /\ l # <<>>
  /\ Has(c.employees)
  /\ \/ \E i \in 1..Len(l) : ArithRaises(FloorAreaOrZero(l[i]))
     \/ total_area(l) > 0 /\ ArithRaises(c.employees)

MinAreaPerEmployee == 5
MaxAreaPerEmployee == 100

RangeSet(s) == {s[i] : i \in 1..Len(s)}

answer_frameworks(a) ==
  UNION {RangeSet(a[q].frameworks.l) : q \in {x \in 1..Len(a) : a[x].t = "dict" /\ a[x].frameworks.t = "list"}}

task_frameworks(t) ==
  UNION {RangeSet(t[i].frameworks.l) : i \in {x \in 1..Len(t) : t[x].frameworks.t = "list"}}

validate_data_consistency(c, l, a, t) ==
  LET ape ==
        IF l # <<>> /\ Has(c.employees) /\ total_area(l) > 0 /\ c.employees.n > 0
        THEN IF total_area(l) < MinAreaPerEmployee * c.employees.n
             THEN <<ValidationIssue(WARNING, "consistency", -1, <<"area_per_employee">>, "Very low floor area per employee")>>
             ELSE IF total_area(l) > MaxAreaPerEmployee * c.employees.n
             THEN <<ValidationIssue(WARNING, "consistency", -1, <<"area_per_employee">>, "Very high floor area per employee")>>
             ELSE <<>>
        ELSE <<>>
      fw ==
        IF answer_frameworks(a) # {} /\ task_frameworks(t) # {}
           /\ answer_frameworks(a) \ task_frameworks(t) # {}
        THEN <<ValidationIssue(INFO, "consistency", -1, <<"frameworks">>, "Some frameworks from answers not found in tasks")>>
        ELSE <<>>
  IN  ape \o fw

\* ------------------------------------------------------------------------
\* _calculate_completeness_score
\* ------------------------------------------------------------------------
CompanyPoints == 25
LocationPoints == 25
AnswerPoints == 30
TaskPoints == 20

completeness_task_fields == <<"title", "category", "status">>

TaskComplete(task) ==
  \A j \in 1..Len(completeness_task_fields) :
    Has(task[completeness_task_fields[j]]) /\ Truthy(task[completeness_task_fields[j]])

\* the answered test by truthiness, which rejects the answer False
Answered_truthy(a) == a.t = "dict" /\ Has(a.answer) /\ Truthy(a.answer)

\* isinstance(answer, dict) and answer.get("answer") not in [None, ""]
Answered(a) == a.t = "dict" /\ ~ Unanswered(a)

location_score(loc) ==
  Cardinality({j \in 1..Len(required_location_fields) :
                 LocationFieldPopulated(loc, required_location_fields[j])})

\* total_points counting only the buckets that hold data
completeness_total_points_nonempty(l, a, t) ==
  CompanyPoints + (IF l # <<>> THEN LocationPoints ELSE 0) + (IF a # <<>> THEN AnswerPoints ELSE 0)
    + (IF t # <<>> THEN TaskPoints ELSE 0)

\* total_points grows by each bucket's weight whether or not the bucket is empty
completeness_total_points(l, a, t) == CompanyPoints + LocationPoints + AnswerPoints + TaskPoints

calculate_completeness_score(c, l, a, t) ==
  LET total_points == completeness_total_points(l, a, t)
      company_completeness ==
        Cardinality({j \in 1..Len(required_company_fields) :
                       Has(c[required_company_fields[j]]) /\ Truthy(c[required_company_fields[j]])})
      earned_company ==
        RMul(Rat(company_completeness, Len(required_company_fields)), RInt(CompanyPoints))
      location_completeness ==
        RSumSeq([i \in 1..Len(l) |-> Rat(location_score(l[i]), Len(required_location_fields))])
      earned_locations ==
        IF l # <<>>
        THEN RMul(RDiv(location_completeness, RInt(Len(l))), RInt(LocationPoints))
        ELSE RInt(0)
      answered_count == Cardinality({q \in 1..Len(a) : Answered(a[q])})
      earned_answers ==
        IF a # <<>> THEN RMul(Rat(answered_count, Len(a)), RInt(AnswerPoints)) ELSE RInt(0)
      task_completeness == Cardinality({i \in 1..Len(t) : TaskComplete(t[i])})
      earned_tasks ==
        IF t # <<>> THEN RMul(Rat(task_completeness, Len(t)), RInt(TaskPoints)) ELSE RInt(0)
      earned_points == RAdd(RAdd(RAdd(earned_company, earned_locations), earned_answers), earned_tasks)
  IN  RMul(RDiv(earned_points, RInt(total_points)), RInt(100))

\* ------------------------------------------------------------------------
\* _calculate_quality_score
\* ------------------------------------------------------------------------
ErrorPenalty == 10
WarningPenalty == 3
InfoPenalty == 1

\* the deduction with INFO issues costing nothing
IssuePenalty_info_free(issue) ==
  CASE issue.severity = ERROR -> ErrorPenalty
    [] issue.severity = WARNING -> WarningPenalty
    [] OTHER -> 0

IssuePenalty(issue) ==
  CASE issue.severity = ERROR -> ErrorPenalty
    [] issue.severity = WARNING -> WarningPenalty
    [] issue.severity = INFO -> InfoPenalty
    [] OTHER -> 0

RECURSIVE DeductIssues(_, _)
DeductIssues(quality_score, issues) ==
  IF issues = <<>> THEN quality_score
  ELSE DeductIssues(RSub(quality_score, RInt(IssuePenalty(Head(issues)))), Tail(issues))

\* the quality score without the max(0, ...) clamp
calculate_quality_score_no_floor(issues, completeness_score) ==
  RMin(RInt(100), DeductIssues(completeness_score, issues))

calculate_quality_score(issues, completeness_score) ==
  RMax(RInt(0), RMin(RInt(100), DeductIssues(completeness_score, issues)))

\* ------------------------------------------------------------------------
\* validate_report_data
\* ------------------------------------------------------------------------
ValidityThreshold == 60

CountSeverity(issues, sev) == Cardinality({i \in 1..Len(issues) : issues[i].severity = sev})

\* the validity test with the completeness threshold left out
IsValid_errors_only(error_count, completeness_score) == error_count = 0

IsValid(error_count, completeness_score) ==
  error_count = 0 /\ RLe(RInt(ValidityThreshold), completeness_score)

\* an exception leaving one of the five checks leaves validate_report_data
validate_raises(c, l, a, t) ==
  validate_location_raises(l) \/ validate_data_consistency_raises(c, l)

\* framework_value is the value carried by the consistency.frameworks issue
NoValidation ==
  [raised |-> FALSE, is_valid |-> FALSE, completeness_score |-> RInt(0),
   quality_score |-> RInt(0), issues |-> <<>>, framework_value |-> <<>>]

validate_report_data(c, l, a, t) ==
  IF validate_raises(c, l, a, t)
  THEN [NoValidation EXCEPT !.raised = TRUE]
  ELSE
    LET issues ==
          validate_company_data(c) \o validate_location_data(l)
            \o validate_scoping_answers(a) \o validate_tasks_data(t)
            \o validate_data_consistency(c, l, a, t)
        completeness_score == calculate_completeness_score(c, l, a, t)
        quality_score == calculate_quality_score(issues, completeness_score)
        error_count == CountSeverity(issues, ERROR)
    IN  [raised |-> FALSE,
         is_valid |-> IsValid(error_count, completeness_score),
         completeness_score |-> completeness_score,
         quality_score |-> quality_score,
         issues |-> issues,
         framework_value |-> <<>>]

\* answer_frameworks - task_frameworks, when the consistency.frameworks issue
\* is appended
missing_in_tasks(a, t) ==
  IF answer_frameworks(a) # {} /\ task_frameworks(t) # {}
  THEN answer_frameworks(a) \ task_frameworks(t)
  ELSE {}

\* list(S) of a set S of strings: the elements in the iteration order of the
\* set, which follows the string hashes of the interpreter process and is
\* any order of the elements
ListsOfSet(S) == {o \in [1..Cardinality(S) -> S] : RangeSet(o) = S}

\* the results a call of validate_report_data can return
validate_report_data_outcomes(c, l, a, t) ==
  IF validate_raises(c, l, a, t) THEN {validate_report_data(c, l, a, t)}
  ELSE {[validate_report_data(c, l, a, t) EXCEPT !.framework_value = o] :
          o \in ListsOfSet(missing_in_tasks(a, t))}

\* ------------------------------------------------------------------------
\* esg_calculator.py: ESGCategory, _score_questions, _score_tasks,
\* _calculate_category_score, _get_sector_weights, calculate_esg_score
\* ------------------------------------------------------------------------
ESGCategory == {"environmental", "social", "governance"}

\* .get("frameworks", [])
FrameworksOrEmpty(x) == IF x.frameworks.t = "list" THEN x.frameworks.l ELSE <<>>

\* max(1.0, len(frameworks))
framework_weight(x) == IF Len(FrameworksOrEmpty(x)) > 1 THEN Len(FrameworksOrEmpty(x)) ELSE 1

\* answer.strip() is empty: the text holds nothing but whitespace
IsBlank(x) == x \in {"", " ", "  "}

\* the score of an answer with the strip() left out: blank text counts
answer_score_unstripped(a) ==
  LET answer == IF Has(a.answer) THEN a.answer ELSE PyNone
  IN  IF answer.t = "bool" THEN (IF answer.n = 1 THEN 100 ELSE 0)
      ELSE IF answer.t = "str" THEN (IF answer.s # "" THEN 100 ELSE 0)
      ELSE 0

\* the score of one answer: a bool counts by its value, a str by being
\* non-blank after strip(), anything else (None, a number) counts 0
answer_score(a) ==
  LET answer == IF Has(a.answer) THEN a.answer ELSE PyNone
  IN  IF answer.t = "bool" THEN (IF answer.n = 1 THEN 100 ELSE 0)
      ELSE IF answer.t = "str" THEN (IF ~ IsBlank(answer.s) THEN 100 ELSE 0)
      ELSE 0

\* the loop of _score_questions: acc is <<total_score, total_weight>>
RECURSIVE AccumulateQuestions(_, _)
AccumulateQuestions(questions, acc) ==
  IF questions = <<>> THEN acc
  ELSE LET weight == framework_weight(Head(questions))
       IN  AccumulateQuestions(Tail(questions),
             <<acc[1] + answer_score(Head(questions)) * weight, acc[2] + weight>>)

score_questions(questions) ==
  IF questions = <<>> THEN RInt(0)
  ELSE LET acc == AccumulateQuestions(questions, <<0, 0>>)
       IN  IF acc[2] > 0 THEN Rat(acc[1], acc[2]) ELSE RInt(0)

\* {"high": 3.0, "medium": 2.0, "low": 1.0}.get(task.get("priority", "medium"), 1.0)
priority_weight(task) ==
  IF ~ Has(task.priority) THEN 2
  ELSE IF PriorityIs(task, "high") THEN 3
  ELSE IF PriorityIs(task, "medium") THEN 2
  ELSE 1

\* the status score with pending review counted like in progress
task_status_score_review(task) ==
  IF StatusIs(task, "completed") THEN 100
  ELSE IF StatusIs(task, "in_progress") \/ StatusIs(task, "pending_review") THEN 50
  ELSE 0

\* status = task.get("status", "to_do")
task_status_score(task) ==
  IF StatusIs(task, "completed") THEN 100
  ELSE IF StatusIs(task, "in_progress") THEN 50
  ELSE 0

\* the loop of _score_tasks: acc is <<total_score, total_weight>>
RECURSIVE AccumulateTasks(_, _)
AccumulateTasks(t, acc) ==
  IF t = <<>> THEN acc
  ELSE LET weight == priority_weight(Head(t)) * framework_weight(Head(t))
       IN  AccumulateTasks(Tail(t),
             <<acc[1] + task_status_score(Head(t)) * weight, acc[2] + weight>>)

\* the task score averaged over the started tasks only
score_tasks_started(t) ==
  LET started == SelectSeq(t, LAMBDA task : task_status_score(task) > 0)
      acc == AccumulateTasks(started, <<0, 0>>)
  IN  IF started = <<>> THEN RInt(0)
      ELSE IF acc[2] > 0 THEN Rat(acc[1], acc[2]) ELSE RInt(0)

score_tasks(t) ==
  IF t = <<>> THEN RInt(0)
  ELSE LET acc == AccumulateTasks(t, <<0, 0>>)
       IN  IF acc[2] > 0 THEN Rat(acc[1], acc[2]) ELSE RInt(0)

CategoryIs(x, cat) == x.category.t = "str" /\ x.category.s = cat

\* the entries of scoping_answers / tasks whose category is cat
category_questions(a, cat) == SelectSeq(a, LAMBDA x : CategoryIs(x, cat))

\* the tasks of cat with the resource categories counted as environmental
category_tasks_resources(t, cat) ==
  SelectSeq(t, LAMBDA x : CategoryIs(x, cat)
                          \/ (cat = "environmental"
                              /\ (CategoryIs(x, "energy") \/ CategoryIs(x, "water")
                                  \/ CategoryIs(x, "waste"))))

category_tasks(t, cat) == SelectSeq(t, LAMBDA x : CategoryIs(x, cat))

\* answer.get("category") raises AttributeError on an answer that is no dict
calculate_category_score_raises(a) == \E q \in 1..Len(a) : a[q].t # "dict"

\* questions and tasks weighted alike
QuestionShare_even == Rat(5, 10)

QuestionShare == Rat(4, 10)
TaskShare == Rat(6, 10)

calculate_category_score(a, t, cat) ==
  IF category_questions(a, cat) = <<>> /\ category_tasks(t, cat) = <<>>
  THEN RInt(0)
  ELSE LET question_score == score_questions(category_questions(a, cat))
           task_score == score_tasks(category_tasks(t, cat))
           category_score == RAdd(RMul(question_score, QuestionShare), RMul(task_score, TaskShare))
       IN  RMin(RInt(100), RMax(RInt(0), category_score))

\* weights in hundredths
WeightedSectors ==
  {"hospitality", "manufacturing", "construction", "healthcare", "education", "logistics"}

default_weights_equal == [environmental |-> 34, social |-> 33, governance |-> 33]

default_weights == [environmental |-> 40, social |-> 30, governance |-> 30]

sector_weights_unnormalised ==
  [s \in WeightedSectors |->
     CASE s = "hospitality" -> [environmental |-> 45, social |-> 35, governance |-> 25]
       [] s = "manufacturing" -> [environmental |-> 50, social |-> 30, governance |-> 20]
       [] s = "construction" -> [environmental |-> 45, social |-> 35, governance |-> 20]
       [] s = "healthcare" -> [environmental |-> 35, social |-> 45, governance |-> 20]
       [] s = "education" -> [environmental |-> 30, social |-> 50, governance |-> 20]
       [] s = "logistics" -> [environmental |-> 50, social |-> 25, governance |-> 25]]

sector_weights ==
  [s \in WeightedSectors |->
     CASE s = "hospitality" -> [environmental |-> 45, social |-> 35, governance |-> 20]
       [] s = "manufacturing" -> [environmental |-> 50, social |-> 30, governance |-> 20]
       [] s = "construction" -> [environmental |-> 45, social |-> 35, governance |-> 20]
       [] s = "healthcare" -> [environmental |-> 35, social |-> 45, governance |-> 20]
       [] s = "education" -> [environmental |-> 30, social |-> 50, governance |-> 20]
       [] s = "logistics" -> [environmental |-> 50, social |-> 25, governance |-> 25]]

get_sector_weights(s) == IF s \in WeightedSectors THEN sector_weights[s] ELSE default_weights

\* environmental_score * weights["environmental"] + social_score * weights["social"]
\*   + governance_score * weights["governance"]
weighted_overall(environmental_score, social_score, governance_score, weights) ==
  RAdd(RAdd(RMul(environmental_score, Rat(weights.environmental, 100)),
            RMul(social_score, Rat(weights.social, 100))),
       RMul(governance_score, Rat(weights.governance, 100)))

NoScores ==
  [raised |-> FALSE, overall |-> RInt(0), environmental |-> RInt(0), social |-> RInt(0),
   governance |-> RInt(0)]

calculate_esg_score(a, t, s) ==
  IF calculate_category_score_raises(a)
  THEN [NoScores EXCEPT !.raised = TRUE]
  ELSE
    LET environmental_score == calculate_category_score(a, t, "environmental")
        social_score == calculate_category_score(a, t, "social")
        governance_score == calculate_category_score(a, t, "governance")
        weights == get_sector_weights(s)
        overall_score ==
          weighted_overall(environmental_score, social_score, governance_score, weights)
    IN  [raised |-> FALSE, overall |-> overall_score, environmental |-> environmental_score,
         social |-> social_score, governance |-> governance_score]

\* ------------------------------------------------------------------------
\* esg_calculator.py: calculate_carbon_footprint
\* ------------------------------------------------------------------------
\* kg CO2e per unit; the electricity and district cooling factors exchanged
EMISSION_FACTORS_swapped ==
  [electricity |-> Rat(385, 1000), natural_gas |-> Rat(275, 100), lpg |-> Rat(303, 100),
   district_cooling |-> Rat(469, 1000), diesel |-> Rat(268, 100), petrol |-> Rat(231, 100)]

\* kg CO2e per unit
EMISSION_FACTORS ==
  [electricity |-> Rat(469, 1000), natural_gas |-> Rat(275, 100), lpg |-> Rat(303, 100),
   district_cooling |-> Rat(385, 1000), diesel |-> Rat(268, 100), petrol |-> Rat(231, 100)]

\* `kind in utilities`, utilities being location.get("utilities", {})
HasUtility(u, kind) == u.t = "dict" /\ u.r[kind].t # "absent"

\* utilities[kind].get("monthlyConsumption", 0) * 12 * factor / 1000, in
\* tonnes CO2e a year; nothing when the kind is not in utilities
annual_emissions(u, kind, factor) ==
  IF HasUtility(u, kind)
  THEN RDiv(RMul(RInt(monthlyConsumption(u.r[kind]).n * 12), factor), RInt(1000))
  ELSE RInt(0)

calculate_scope1_emissions(u) ==
  RAdd(annual_emissions(u, "naturalGas", EMISSION_FACTORS.natural_gas),
       annual_emissions(u, "lpg", EMISSION_FACTORS.lpg))

\* scope 2 with district cooling taken off the electricity emissions
calculate_scope2_emissions_offset(u) ==
  RSub(annual_emissions(u, "electricity", EMISSION_FACTORS.electricity),
       annual_emissions(u, "districtCooling", EMISSION_FACTORS.district_cooling))

calculate_scope2_emissions(u) ==
  RAdd(annual_emissions(u, "electricity", EMISSION_FACTORS.electricity),
       annual_emissions(u, "districtCooling", EMISSION_FACTORS.district_cooling))

\* `kind in utilities` raises TypeError when utilities is None; .get raises
\* AttributeError on a reading that is no dict; monthly * 12 * factor raises
\* TypeError unless monthly is a number
utility_emissions_raises(u, kinds) ==
  \/ u.t = "null"
  \/ /\ u.t = "dict"
     /\ \E k \in kinds :
          \/ u.r[k].t = "other"
          \/ u.r[k].t = "dict" /\ ArithRaises(monthlyConsumption(u.r[k]))

\* company_data.get("employees", 1)
EmployeesOrOne(c) == IF Has(c.employees) THEN c.employees ELSE PyInt(1)

\* total_floor_area += floor_area raises TypeError unless floor_area is a
\* number, and so does employees > 0
calculate_carbon_footprint_raises(l, c) ==
  \/ \E i \in 1..Len(l) :
       \/ ArithRaises(FloorAreaOrZero(l[i]))
       \/ utility_emissions_raises(l[i].utilities,
                                   {"naturalGas", "lpg", "electricity", "districtCooling"})
  \/ ArithRaises(EmployeesOrOne(c))

NoFootprint ==
  [raised |-> FALSE, total_annual |-> RInt(0), scope1 |-> RInt(0), scope2 |-> RInt(0),
   emissions_per_sqm |-> RInt(0), emissions_per_employee |-> RInt(0)]

\* the footprint with the intensities guarded by `# 0` in place of `> 0`
calculate_carbon_footprint_nonzero_guard(l, c) ==
  IF calculate_carbon_footprint_raises(l, c)
  THEN [NoFootprint EXCEPT !.raised = TRUE]
  ELSE
    LET total_scope1 == RSumSeq([i \in 1..Len(l) |-> calculate_scope1_emissions(l[i].utilities)])
        total_scope2 == RSumSeq([i \in 1..Len(l) |-> calculate_scope2_emissions(l[i].utilities)])
        total_floor_area == total_area(l)
        total_annual == RAdd(total_scope1, total_scope2)
        employees == EmployeesOrOne(c).n
        Signed(x, d) == IF d > 0 THEN RDiv(x, RInt(d)) ELSE RDiv(RSub(RInt(0), x), RInt(-d))
    IN  [raised |-> FALSE, total_annual |-> total_annual, scope1 |-> total_scope1,
         scope2 |-> total_scope2,
         emissions_per_sqm |->
           IF total_floor_area # 0 THEN Signed(total_annual, total_floor_area) ELSE RInt(0),
         emissions_per_employee |->
           IF employees # 0 THEN Signed(total_annual, employees) ELSE RInt(0)]

calculate_carbon_footprint(l, c) ==
  IF calculate_carbon_footprint_raises(l, c)
  THEN [NoFootprint EXCEPT !.raised = TRUE]
  ELSE
    LET total_scope1 == RSumSeq([i \in 1..Len(l) |-> calculate_scope1_emissions(l[i].utilities)])
        total_scope2 == RSumSeq([i \in 1..Len(l) |-> calculate_scope2_emissions(l[i].utilities)])
        total_floor_area == total_area(l)
        total_annual == RAdd(total_scope1, total_scope2)
        employees == EmployeesOrOne(c).n
    IN  [raised |-> FALSE, total_annual |-> total_annual, scope1 |-> total_scope1,
         scope2 |-> total_scope2,
         emissions_per_sqm |->
           IF total_floor_area > 0 THEN RDiv(total_annual, RInt(total_floor_area)) ELSE RInt(0),
         emissions_per_employee |->
           IF employees > 0 THEN RDiv(total_annual, RInt(employees)) ELSE RInt(0)]

\* ------------------------------------------------------------------------
\* esg_calculator.py: calculate_compliance_rates
\* ------------------------------------------------------------------------
\* framework in task.get("frameworks", [])
ReferencesFramework(task, framework) ==
  \E k \in 1..Len(task.frameworks.l) : task.frameworks.l[k] = framework

\* the record of one framework with the completed tasks counted among all
\* tasks instead of among the tasks that reference the framework
compliance_rate_all_completed(t, framework) ==
  LET framework_tasks == SelectSeq(t, LAMBDA task : ReferencesFramework(task, framework))
      completed_tasks == SelectSeq(t, LAMBDA task : StatusIs(task, "completed"))
  IN  IF framework_tasks = <<>>
      THEN [framework |-> framework, rate |-> RInt(0), completed |-> 0, total |-> 0]
      ELSE [framework |-> framework,
            rate |-> RMul(Rat(Len(completed_tasks), Len(framework_tasks)), RInt(100)),
            completed |-> Len(completed_tasks), total |-> Len(framework_tasks)]

\* the ComplianceRate appended for one framework
compliance_rate(t, framework) ==
  LET framework_tasks == SelectSeq(t, LAMBDA task : ReferencesFramework(task, framework))
      completed_tasks == SelectSeq(framework_tasks, LAMBDA task : StatusIs(task, "completed"))
  IN  IF framework_tasks = <<>>
      THEN [framework |-> framework, rate |-> RInt(0), completed |-> 0, total |-> 0]
      ELSE [framework |-> framework,
            rate |-> RMul(Rat(Len(completed_tasks), Len(framework_tasks)), RInt(100)),
            completed |-> Len(completed_tasks), total |-> Len(framework_tasks)]

calculate_compliance_rates(t, f) == [k \in 1..Len(f) |-> compliance_rate(t, f[k])]

\* ------------------------------------------------------------------------
\* esg_calculator.py: compare_to_benchmarks
\* ------------------------------------------------------------------------
BenchmarkedSectors ==
  {"hospitality", "manufacturing", "construction", "education", "healthcare", "logistics"}

Bands(e, a, i) == [efficient |-> e, average |-> a, inefficient |-> i]

\* kWh, L and kg CO2e per square metre and year
SECTOR_BENCHMARKS ==
  [s \in BenchmarkedSectors |->
     CASE s = "hospitality" ->
            [electricity_intensity |-> Bands(100, 150, 200),
             water_intensity |-> Bands(300, 500, 700), carbon_intensity |-> Bands(50, 75, 100)]
       [] s = "manufacturing" ->
            [electricity_intensity |-> Bands(200, 300, 400),
             water_intensity |-> Bands(100, 200, 300), carbon_intensity |-> Bands(100, 150, 200)]
       [] s = "construction" ->
            [electricity_intensity |-> Bands(80, 120, 160),
             water_intensity |-> Bands(150, 250, 350), carbon_intensity |-> Bands(40, 60, 80)]
       [] s = "education" ->
            [electricity_intensity |-> Bands(60, 90, 120),
             water_intensity |-> Bands(200, 300, 400), carbon_intensity |-> Bands(30, 45, 60)]
       [] s = "healthcare" ->
            [electricity_intensity |-> Bands(250, 350, 450),
             water_intensity |-> Bands(400, 600, 800), carbon_intensity |-> Bands(120, 170, 220)]
       [] s = "logistics" ->
            [electricity_intensity |-> Bands(40, 60, 80),
             water_intensity |-> Bands(50, 100, 150), carbon_intensity |-> Bands(200, 300, 400)]]

\* the bands compared with `<` in place of `<=`
categorize_performance_strict(actual_value, benchmarks) ==
  IF RLt(actual_value, RInt(benchmarks.efficient)) THEN "efficient"
  ELSE IF RLt(actual_value, RInt(benchmarks.average)) THEN "average"
  ELSE "inefficient"

categorize_performance(actual_value, benchmarks) ==
  IF RLe(actual_value, RInt(benchmarks.efficient)) THEN "efficient"
  ELSE IF RLe(actual_value, RInt(benchmarks.average)) THEN "average"
  ELSE "inefficient"

\* performance_scores.get(perf, 0)
performance_score(perf) ==
  CASE perf = "efficient" -> 3
    [] perf = "average" -> 2
    [] perf = "inefficient" -> 1
    [] OTHER -> 0

\* the ranking with the mean rounded to the nearest class from 2 and from 1
overall_ranking_rounded(electricity_perf, water_perf, carbon_perf) ==
  LET avg_score ==
        Rat(performance_score(electricity_perf) + performance_score(water_perf)
              + performance_score(carbon_perf), 3)
  IN  IF RLt(RInt(2), avg_score) THEN "efficient"
      ELSE IF RLt(RInt(1), avg_score) THEN "average"
      ELSE "inefficient"

overall_ranking(electricity_perf, water_perf, carbon_perf) ==
  LET avg_score ==
        Rat(performance_score(electricity_perf) + performance_score(water_perf)
              + performance_score(carbon_perf), 3)
  IN  IF RLe(Rat(5, 2), avg_score) THEN "efficient"
      ELSE IF RLe(Rat(3, 2), avg_score) THEN "average"
      ELSE "inefficient"

\* loc.get("utilities", {}).get(kind, {}).get("monthlyConsumption", 0)
MonthlyOrZero(loc, kind) ==
  IF HasUtility(loc.utilities, kind) THEN monthlyConsumption(loc.utilities.r[kind])
  ELSE PyInt(0)

\* without a benchmark table nothing is read; otherwise .get raises
\* AttributeError on utilities that are None and on a reading that is no
\* dict, and sum(...) raises TypeError over a value that is no number
compare_to_benchmarks_raises(l, s) ==
  /\ s \in BenchmarkedSectors
  /\ \E i \in 1..Len(l) :
       \/ l[i].utilities.t = "null"
       \/ \E k \in {"electricity", "water"} :
            \/ l[i].utilities.r[k].t = "other"
            \/ ArithRaises(MonthlyOrZero(l[i], k))
       \/ ArithRaises(FloorAreaOrZero(l[i]))

NoComparison ==
  [raised |-> FALSE, electricity_performance |-> "", water_performance |-> "",
   carbon_performance |-> "", overall_ranking |-> ""]

UnknownComparison ==
  [raised |-> FALSE, electricity_performance |-> "unknown", water_performance |-> "unknown",
   carbon_performance |-> "unknown", overall_ranking |-> "unknown"]

\* the area test as `total_floor_area <= 0`
NoFloorArea_nonpositive(total_floor_area) == total_floor_area <= 0

\* total_floor_area == 0
NoFloorArea(total_floor_area) == total_floor_area = 0

compare_to_benchmarks(l, carbon_footprint, s) ==
  IF compare_to_benchmarks_raises(l, s) THEN [NoComparison EXCEPT !.raised = TRUE]
  ELSE IF s \notin BenchmarkedSectors THEN UnknownComparison
  ELSE
    LET benchmarks == SECTOR_BENCHMARKS[s]
        total_electricity == SumSeq([i \in 1..Len(l) |-> MonthlyOrZero(l[i], "electricity").n * 12])
        total_water == SumSeq([i \in 1..Len(l) |-> MonthlyOrZero(l[i], "water").n * 12])
        total_floor_area == total_area(l)
    IN  IF NoFloorArea(total_floor_area) THEN UnknownComparison
        ELSE
          LET electricity_intensity == RDivInt(RInt(total_electricity), total_floor_area)
              water_intensity == RDivInt(RInt(total_water * 1000), total_floor_area)
              carbon_intensity == RMul(carbon_footprint.emissions_per_sqm, RInt(1000))
              electricity_perf ==
                categorize_performance(electricity_intensity, benchmarks.electricity_intensity)
              water_perf == categorize_performance(water_intensity, benchmarks.water_intensity)
              carbon_perf == categorize_performance(carbon_intensity, benchmarks.carbon_intensity)
          IN  [raised |-> FALSE, electricity_performance |-> electricity_perf,
               water_performance |-> water_perf, carbon_performance |-> carbon_perf,
               overall_ranking |-> overall_ranking(electricity_perf, water_perf, carbon_perf)]

\* ------------------------------------------------------------------------
\* Inputs of validate_report_data
\* ------------------------------------------------------------------------
Frameworks == {"DST", "GK"}
FAbsent == [t |-> "absent", l |-> <<>>]
FList(l) == [t |-> "list", l |-> l]

ReadingAbsent == [t |-> "absent", mc |-> Absent]
ReadingOther == [t |-> "other", mc |-> Absent]
Reading(mc) == [t |-> "dict", mc |-> mc]

NoReadings == [k \in UtilityKinds |-> ReadingAbsent]
UAbsent == [t |-> "absent", r |-> NoReadings]
UNone == [t |-> "null", r |-> NoReadings]
UDict(r) == [t |-> "dict", r |-> r]

GoodCompany ==
  [name |-> PyStr("Acme"), sector |-> PyStr("hospitality"), employees |-> PyInt(50),
   establishedYear |-> PyInt(2015)]
EmptyCompany ==
  [name |-> Absent, sector |-> Absent, employees |-> Absent, establishedYear |-> Absent]
ScenarioACompany == [GoodCompany EXCEPT !.name = Absent]

GoodUtilities ==
  UDict([NoReadings EXCEPT !["electricity"] = Reading(PyInt(15000)),
                           !["water"] = Reading(PyInt(50))])
GoodLocation ==
  [name |-> PyStr("HQ"), totalFloorArea |-> PyInt(1000), utilities |-> GoodUtilities]
ScenarioALocation == [GoodLocation EXCEPT !.name = Absent]

GoodAnswer ==
  [t |-> "dict", question |-> PyStr("Q"), answer |-> PyBool(TRUE),
   frameworks |-> FList(<<"DST">>), category |-> PyStr("environmental")]
NonRecordAnswer ==
  [t |-> "other", question |-> Absent, answer |-> Absent, frameworks |-> FAbsent,
   category |-> Absent]

GoodTask ==
  [title |-> PyStr("T"), category |-> PyStr("environmental"), status |-> PyStr("completed"),
   priority |-> PyStr("high"), frameworks |-> FList(<<"DST">>)]

\* the values a company record is drawn from
CompanyRich ==
  [name : {Absent, PyStr("Acme")},
   sector : {Absent, PyStr(""), PyStr("hospitality"), PyStr("retail"), PyStr("agriculture")},
   employees : {Absent, PyNone, PyStr("fifty"), PyInt(0), PyInt(-5), PyInt(5), PyInt(50), PyInt(500)},
   establishedYear : {Absent, PyInt(1899), PyInt(1900), PyInt(2024), PyInt(2025), PyFloat(2015)}]

\* the values a location record is drawn from
ElectricityReadings ==
  {ReadingAbsent, ReadingOther, Reading(Absent), Reading(PyInt(-1)), Reading(PyInt(0)),
   Reading(PyInt(15000)), Reading(PyStr("n/a"))}
GasReadings == {ReadingAbsent, Reading(PyInt(-1)), Reading(PyInt(100)), Reading(PyNone)}
UtilitiesRich ==
  {UDict([NoReadings EXCEPT !["electricity"] = e, !["water"] = w, !["naturalGas"] = g]) :
     e \in ElectricityReadings, w \in {ReadingAbsent, Reading(PyInt(50))}, g \in GasReadings}
LocationRich ==
  [name : {Absent, PyStr("HQ")},
   totalFloorArea : {Absent, PyNone, PyStr("big"), PyInt(0), PyInt(1000), PyInt(MaxFloorArea + 1)},
   utilities : {GoodUtilities}]
    \cup {[GoodLocation EXCEPT !.utilities = UAbsent]}
LocationUtilitiesRich ==
  [name : {PyStr("HQ")}, totalFloorArea : {PyInt(1000)},
   utilities : {UNone, UDict(NoReadings)} \cup UtilitiesRich]

\* the values an answer is drawn from
AnswerRich ==
  {NonRecordAnswer}
    \cup [t : {"dict"}, question : {Absent, PyStr("Q")},
          answer : {Absent, PyNone, PyStr(""), PyStr("yes"), PyBool(FALSE)},
          frameworks : {FList(<<"DST">>)}, category : {PyStr("social")}]
    \cup [t : {"dict"}, question : {PyStr("Q")}, answer : {PyStr("yes")},
          frameworks : {FAbsent, FList(<<>>), FList(<<"GK">>)},
          category : {Absent, PyStr(""), PyStr("energy")}]

\* the values a task is drawn from
TaskRich ==
  [title : {PyStr("T")}, category : {PyStr("environmental")},
   status : {Absent, PyStr("completed"), PyStr("in_progress"), PyStr("to_do"), PyStr("todo"),
             PyStr("pending_review")},
   priority : {PyStr("high"), PyStr("low")}, frameworks : {FList(<<"DST">>)}]
    \cup {[GoodTask EXCEPT !.title = Absent], [GoodTask EXCEPT !.category = PyStr("")],
          [GoodTask EXCEPT !.priority = Absent], [GoodTask EXCEPT !.frameworks = FAbsent],
          [GoodTask EXCEPT !.frameworks = FList(<<"GK">>)]}

\* the rest of an input set whose one collection is drawn from its rich set
CompanyThin == {GoodCompany, ScenarioACompany, EmptyCompany}
LocationsThin == {<<GoodLocation>>, <<ScenarioALocation>>, <<>>}
AnswersThin == {<<GoodAnswer>>, <<>>}
TasksThin == {<<GoodTask>>, <<>>}
CompanyLocationsThin ==
  {<<GoodCompany, <<GoodLocation>>>>, <<ScenarioACompany, <<ScenarioALocation>>>>,
   <<EmptyCompany, <<>>>>}

InitInputs ==
  \/ /\ company \in CompanyRich
     /\ locations \in LocationsThin
     /\ answers \in AnswersThin
     /\ tasks \in TasksThin
  \/ /\ company \in CompanyThin
     /\ locations \in SeqsUpTo(LocationRich, MaxLocs)
     /\ answers \in AnswersThin
     /\ tasks \in TasksThin
  \/ /\ company \in CompanyThin
     /\ locations \in {<<loc>> : loc \in LocationUtilitiesRich}
     /\ answers \in AnswersThin
     /\ tasks \in TasksThin
  \/ /\ \E ctx \in CompanyLocationsThin : company = ctx[1] /\ locations = ctx[2]
     /\ answers \in SeqsUpTo(AnswerRich, MaxAnswers)
     /\ tasks \in TasksThin
  \/ /\ \E ctx \in CompanyLocationsThin : company = ctx[1] /\ locations = ctx[2]
     /\ answers \in AnswersThin
     /\ tasks \in SeqsUpTo(TaskRich, MaxTasks)

\* ------------------------------------------------------------------------
\* The validator as a state machine: the caller's four collections are the
\* state after construction, Validate is one call of validate_report_data
\* ------------------------------------------------------------------------
Init ==
  /\ InitInputs
  /\ sector = ""
  /\ frameworks = <<>>
  /\ footprint = NoFootprint
  /\ rates = <<>>
  /\ comparison = NoComparison
  /\ pc = "start"
  /\ validation = NoValidation
  /\ category = ""
  /\ sub_score = RInt(0)
  /\ scores = NoScores

Validate ==
  /\ pc = "start"
  /\ validation' \in validate_report_data_outcomes(company, locations, answers, tasks)
  /\ pc' = IF validation'.raised THEN "raised" ELSE "validated"
  /\ UNCHANGED <<frameworks, footprint, rates, comparison, company, locations, answers, tasks, sector, category, sub_score, scores>>

Next == Validate

Spec == Init /\ [][Next]_vars

\* ------------------------------------------------------------------------
\* Inputs of calculate_esg_score
\* ------------------------------------------------------------------------
ScoreAnswerRich ==
  [t : {"dict"}, question : {PyStr("Q")},
   answer : {Absent, PyNone, PyInt(5), PyStr(""), PyStr("  "), PyStr("yes"), PyBool(TRUE), PyBool(FALSE)},
   frameworks : {FList(<<"DST">>)}, category : {PyStr("environmental")}]
    \cup [t : {"dict"}, question : {PyStr("Q")}, answer : {PyBool(TRUE), PyBool(FALSE)},
          frameworks : {FAbsent, FList(<<>>), FList(<<"DST", "GK">>)},
          category : {PyStr("environmental")}]
    \cup [t : {"dict"}, question : {PyStr("Q")}, answer : {PyBool(TRUE)},
          frameworks : {FList(<<"DST">>)},
          category : {Absent, PyStr("social"), PyStr("governance"), PyStr("energy")}]

ScoreTaskRich ==
  [title : {PyStr("T")}, category : {PyStr("environmental")},
   status : {Absent, PyStr("completed"), PyStr("in_progress"), PyStr("to_do"), PyStr("todo"),
             PyStr("pending_review")},
   priority : {PyStr("high"), PyStr("low")}, frameworks : {FList(<<"DST">>)}]
    \cup [title : {PyStr("T")}, category : {PyStr("environmental")},
          status : {PyStr("completed"), PyStr("in_progress")},
          priority : {Absent, PyStr("medium"), PyStr("urgent")}, frameworks : {FList(<<"DST">>)}]
    \cup [title : {PyStr("T")}, category : {PyStr("environmental")},
          status : {PyStr("completed")}, priority : {PyStr("low")},
          frameworks : {FAbsent, FList(<<>>), FList(<<"DST", "GK">>)}]
    \cup [title : {PyStr("T")}, category : {Absent, PyStr("social"), PyStr("energy")},
          status : {PyStr("completed")}, priority : {PyStr("medium")},
          frameworks : {FList(<<"DST">>)}]

ScoreAnswersThin ==
  {<<>>, <<GoodAnswer>>,
   <<GoodAnswer, [GoodAnswer EXCEPT !.answer = PyStr(""), !.category = PyStr("social")]>>,
   <<NonRecordAnswer>>}
ScoreTasksThin ==
  {<<>>, <<GoodTask>>,
   <<[GoodTask EXCEPT !.status = PyStr("in_progress"), !.category = PyStr("social")],
     [GoodTask EXCEPT !.status = PyStr("completed"), !.category = PyStr("governance"),
                      !.priority = PyStr("low")]>>}

Sectors == valid_sectors \cup {"agriculture", ""}

InitScoreInputs ==
  \/ /\ answers \in SeqsUpTo(ScoreAnswerRich, MaxAnswers)
     /\ tasks \in ScoreTasksThin
     /\ sector = "hospitality"
  \/ /\ answers \in ScoreAnswersThin
     /\ tasks \in SeqsUpTo(ScoreTaskRich, MaxTasks)
     /\ sector = "hospitality"
  \/ /\ answers \in ScoreAnswersThin
     /\ tasks \in ScoreTasksThin
     /\ sector \in Sectors

\* ------------------------------------------------------------------------
\* The score engine as a state machine: one call of calculate_esg_score, or
\* of one of the helpers it is made of, on the caller's answers and tasks
\* ------------------------------------------------------------------------
InitScore ==
  /\ InitScoreInputs
  /\ frameworks = <<>>
  /\ footprint = NoFootprint
  /\ rates = <<>>
  /\ comparison = NoComparison
  /\ company = GoodCompany
  /\ locations = <<>>
  /\ pc = "start"
  /\ validation = NoValidation
  /\ category = ""
  /\ sub_score = RInt(0)
  /\ scores = NoScores

\* _score_questions, as _calculate_category_score calls it for category cat
ScoreQuestions(cat) ==
  /\ pc = "start"
  /\ ~ calculate_category_score_raises(answers)
  /\ ~ (category_questions(answers, cat) = <<>> /\ category_tasks(tasks, cat) = <<>>)
  /\ sub_score' = score_questions(category_questions(answers, cat))
  /\ category' = cat
  /\ pc' = "questions_scored"
  /\ UNCHANGED <<frameworks, footprint, rates, comparison, company, locations, answers, tasks, sector, validation, scores>>

\* _score_tasks, as _calculate_category_score calls it for category cat
ScoreTasks(cat) ==
  /\ pc = "start"
  /\ ~ calculate_category_score_raises(answers)
  /\ ~ (category_questions(answers, cat) = <<>> /\ category_tasks(tasks, cat) = <<>>)
  /\ sub_score' = score_tasks(category_tasks(tasks, cat))
  /\ category' = cat
  /\ pc' = "tasks_scored"
  /\ UNCHANGED <<frameworks, footprint, rates, comparison, company, locations, answers, tasks, sector, validation, scores>>

CalculateCategoryScore(cat) ==
  /\ pc = "start"
  /\ ~ calculate_category_score_raises(answers)
  /\ sub_score' = calculate_category_score(answers, tasks, cat)
  /\ category' = cat
  /\ pc' = "category_scored"
  /\ UNCHANGED <<frameworks, footprint, rates, comparison, company, locations, answers, tasks, sector, validation, scores>>

CalculateESGScore ==
  /\ pc = "start"
  /\ scores' = calculate_esg_score(answers, tasks, sector)
  /\ pc' = IF scores'.raised THEN "raised" ELSE "scored"
  /\ UNCHANGED <<frameworks, footprint, rates, comparison, company, locations, answers, tasks, sector, validation, category, sub_score>>

\* category scores a caller can hold: the ends of the range and values between
CategoryScores == {RInt(0), Rat(1, 3), RInt(40), Rat(200, 3), RInt(100)}

\* the weighting step of calculate_esg_score on three given category scores
ApplySectorWeights ==
  /\ pc = "start"
  /\ answers = <<>>
  /\ tasks = <<>>
  /\ \E environmental_score \in CategoryScores, social_score \in CategoryScores,
        governance_score \in CategoryScores :
       scores' = [raised |-> FALSE,
                  overall |-> weighted_overall(environmental_score, social_score,
                                               governance_score, get_sector_weights(sector)),
                  environmental |-> environmental_score, social |-> social_score,
                  governance |-> governance_score]
  /\ pc' = "weighted"
  /\ UNCHANGED <<frameworks, footprint, rates, comparison, company, locations, answers, tasks, sector, validation, category, sub_score>>

NextScore ==
  \/ ApplySectorWeights
  \/ \E cat \in ESGCategory : ScoreQuestions(cat)
  \/ \E cat \in ESGCategory : ScoreTasks(cat)
  \/ \E cat \in ESGCategory : CalculateCategoryScore(cat)
  \/ CalculateESGScore

SpecScore == InitScore /\ [][NextScore]_vars

\* ------------------------------------------------------------------------
\* Inputs of calculate_carbon_footprint, compare_to_benchmarks and
\* calculate_compliance_rates
\* ------------------------------------------------------------------------
MaxFrameworks == 2

Utilities(e, w, c, g, l) ==
  UDict([NoReadings EXCEPT !["electricity"] = e, !["water"] = w, !["districtCooling"] = c,
                           !["naturalGas"] = g, !["lpg"] = l])

\* electricity and water around the hospitality bands of a 1200 sqm site, the
\* fuels of scope 1 and district cooling, and readings that are no numbers
MetricUtilities ==
  {UAbsent, UDict(NoReadings)}
    \cup {Utilities(e, w, ReadingAbsent, ReadingAbsent, ReadingAbsent) :
            e \in {Reading(PyInt(0)), Reading(PyInt(10000)), Reading(PyInt(15000)),
                   Reading(PyInt(15001))},
            w \in {ReadingAbsent, Reading(PyInt(30)), Reading(PyInt(50)), Reading(PyInt(51))}}
    \cup {Utilities(Reading(PyInt(10000)), Reading(PyInt(30)), c, g, l) :
            c \in {ReadingAbsent, Reading(PyInt(100))},
            g \in {ReadingAbsent, Reading(PyInt(1000))},
            l \in {ReadingAbsent, Reading(PyInt(100))}}
    \cup {Utilities(Reading(Absent), ReadingAbsent, ReadingAbsent, Reading(PyInt(-100)),
                    ReadingAbsent)}

MalformedUtilities ==
  {UNone,
   Utilities(ReadingOther, ReadingAbsent, ReadingAbsent, ReadingAbsent, ReadingAbsent),
   Utilities(Reading(PyInt(15000)), Reading(PyStr("n/a")), ReadingAbsent, ReadingAbsent,
             ReadingAbsent),
   Utilities(ReadingAbsent, ReadingAbsent, ReadingAbsent, Reading(PyNone), ReadingAbsent)}

MetricLocations ==
  [name : {PyStr("HQ")}, totalFloorArea : {PyInt(1200)}, utilities : MetricUtilities]
    \cup [name : {PyStr("HQ")}, totalFloorArea : {Absent, PyInt(0), PyInt(-1200), PyStr("big")},
          utilities : {GoodUtilities}]
    \cup [name : {PyStr("HQ")}, totalFloorArea : {PyInt(1200)}, utilities : MalformedUtilities]
    \cup {[name |-> PyStr("HQ"), totalFloorArea |-> PyInt(33),
           utilities |-> Utilities(ReadingAbsent, ReadingAbsent, ReadingAbsent,
                                   Reading(PyInt(50)), ReadingAbsent)]}

MetricLocationsThin ==
  {<<>>, <<GoodLocation>>, <<[GoodLocation EXCEPT !.totalFloorArea = PyInt(0)]>>,
   <<[GoodLocation EXCEPT !.totalFloorArea = PyInt(-1200)]>>,
   <<GoodLocation, [GoodLocation EXCEPT !.totalFloorArea = Absent]>>}

MetricCompanies ==
  {[GoodCompany EXCEPT !.employees = e] :
     e \in {Absent, PyNone, PyStr("fifty"), PyInt(0), PyInt(-5), PyInt(50)}}

ComplianceTasks ==
  [title : {PyStr("T")}, category : {PyStr("environmental")},
   status : {Absent, PyStr("completed"), PyStr("in_progress")}, priority : {PyStr("high")},
   frameworks : {FAbsent, FList(<<"DST">>), FList(<<"GK">>), FList(<<"DST", "GK">>)}]

\* four tasks that reference DST, three of them completed
ScenarioCTasks ==
  <<GoodTask, GoodTask, [GoodTask EXCEPT !.status = PyStr("in_progress")],
    [GoodTask EXCEPT !.frameworks = FList(<<"GK", "DST">>)]>>

FrameworkNames == {"DST", "GK", "ISO"}

InitMetricInputs ==
  \/ /\ locations \in SeqsUpTo(MetricLocations, MaxLocs)
     /\ company = GoodCompany
     /\ sector = "hospitality"
     /\ tasks = <<>>
     /\ frameworks = <<>>
  \/ /\ locations \in MetricLocationsThin
     /\ company \in MetricCompanies
     /\ sector \in Sectors
     /\ tasks = <<>>
     /\ frameworks = <<>>
  \/ /\ locations = <<>>
     /\ company = GoodCompany
     /\ sector = "hospitality"
     /\ tasks \in SeqsUpTo(ComplianceTasks, MaxTasks) \cup {ScenarioCTasks}
     /\ frameworks \in SeqsUpTo(FrameworkNames, MaxFrameworks)

\* ------------------------------------------------------------------------
\* The metrics as a state machine: calculate_carbon_footprint followed by
\* compare_to_benchmarks on its result, and calculate_compliance_rates
\* ------------------------------------------------------------------------
InitMetrics ==
  /\ InitMetricInputs
  /\ answers = <<>>
  /\ pc = "start"
  /\ validation = NoValidation
  /\ category = ""
  /\ sub_score = RInt(0)
  /\ scores = NoScores
  /\ footprint = NoFootprint
  /\ rates = <<>>
  /\ comparison = NoComparison

CalculateCarbonFootprint ==
  /\ pc = "start"
  /\ footprint' = calculate_carbon_footprint(locations, company)
  /\ pc' = IF footprint'.raised THEN "raised" ELSE "footprint"
  /\ UNCHANGED <<company, locations, answers, tasks, sector, frameworks, validation, category,
                 sub_score, scores, rates, comparison>>

CompareToBenchmarks ==
  /\ pc = "footprint"
  /\ comparison' = compare_to_benchmarks(locations, footprint, sector)
  /\ pc' = IF comparison'.raised THEN "raised" ELSE "compared"
  /\ UNCHANGED <<company, locations, answers, tasks, sector, frameworks, validation, category,
                 sub_score, scores, footprint, rates>>

CalculateComplianceRates ==
  /\ pc = "start"
  /\ tasks # <<>> \/ frameworks # <<>>
  /\ rates' = calculate_compliance_rates(tasks, frameworks)
  /\ pc' = "rated"
  /\ UNCHANGED <<company, locations, answers, tasks, sector, frameworks, validation, category,
                 sub_score, scores, footprint, comparison>>

NextMetrics ==
  \/ CalculateCarbonFootprint
  \/ CompareToBenchmarks
  \/ CalculateComplianceRates

SpecMetrics == InitMetrics /\ [][NextMetrics]_vars

\* ------------------------------------------------------------------------
\* report_engine.py: generate_report, from the validation of the inputs to
\* the four metrics computed from them
\* ------------------------------------------------------------------------
\* company_data.get("sector", "unknown"); a sector that is no text has
\* neither weights nor a benchmark table, as "unknown" has none
report_sector(c) == IF c.sector.t = "str" THEN c.sector.s ELSE "unknown"

ReportAnswers == AnswersThin \cup {<<NonRecordAnswer>>, <<GoodAnswer, NonRecordAnswer>>}

ReportFrameworks == {<<>>, <<"DST", "GK">>}

InitReportInputs ==
  \/ /\ company \in CompanyRich
     /\ locations \in LocationsThin
     /\ answers \in ReportAnswers
     /\ tasks \in TasksThin
  \/ /\ company \in CompanyThin
     /\ locations \in SeqsUpTo(LocationRich, MaxLocs) \cup SeqsUpTo(MetricLocations, 1)
     /\ answers \in AnswersThin
     /\ tasks \in TasksThin

InitReport ==
  /\ InitReportInputs
  /\ frameworks \in ReportFrameworks
  /\ sector = ""
  /\ pc = "start"
  /\ validation = NoValidation
  /\ category = ""
  /\ sub_score = RInt(0)
  /\ scores = NoScores
  /\ footprint = NoFootprint
  /\ rates = <<>>
  /\ comparison = NoComparison

\* validate_report_data and the sector taken from the company
ReportValidate ==
  /\ pc = "start"
  /\ validation' \in validate_report_data_outcomes(company, locations, answers, tasks)
  /\ sector' = report_sector(company)
  /\ pc' = IF validation'.raised THEN "rejected" ELSE "validated"
  /\ UNCHANGED <<company, locations, answers, tasks, frameworks, category, sub_score, scores,
                 footprint, rates, comparison>>

ReportScore ==
  /\ pc = "validated"
  /\ scores' = calculate_esg_score(answers, tasks, sector)
  /\ pc' = IF scores'.raised THEN "raised" ELSE "report_scored"
  /\ UNCHANGED <<company, locations, answers, tasks, sector, frameworks, validation, category,
                 sub_score, footprint, rates, comparison>>

ReportFootprint ==
  /\ pc = "report_scored"
  /\ footprint' = calculate_carbon_footprint(locations, company)
  /\ pc' = IF footprint'.raised THEN "raised" ELSE "report_footprint"
  /\ UNCHANGED <<company, locations, answers, tasks, sector, frameworks, validation, category,
                 sub_score, scores, rates, comparison>>

ReportComplianceRates ==
  /\ pc = "report_footprint"
  /\ rates' = calculate_compliance_rates(tasks, frameworks)
  /\ pc' = "report_rated"
  /\ UNCHANGED <<company, locations, answers, tasks, sector, frameworks, validation, category,
                 sub_score, scores, footprint, comparison>>

ReportBenchmarks ==
  /\ pc = "report_rated"
  /\ comparison' = compare_to_benchmarks(locations, footprint, sector)
  /\ pc' = IF comparison'.raised THEN "raised" ELSE "report_compared"
  /\ UNCHANGED <<company, locations, answers, tasks, sector, frameworks, validation, category,
                 sub_score, scores, footprint, rates>>

NextReport ==
  \/ ReportValidate
  \/ ReportScore
  \/ ReportFootprint
  \/ ReportComplianceRates
  \/ ReportBenchmarks

SpecReport == InitReport /\ [][NextReport]_vars

\* ========================================================================
\* Properties of validate_report_data (specification Spec)
\* ========================================================================
Validated == pc = "validated"

ErrorCount == CountSeverity(validation.issues, ERROR)
WarningCount == CountSeverity(validation.issues, WARNING)
InfoCount == CountSeverity(validation.issues, INFO)

Populated(v) == Has(v) /\ Truthy(v)

\* C1: validate returns a ValidationResult for every combination of company,
\* locations, answers and tasks and never raises.
C1_NeverRaises == pc # "raised"

\* C2: whenever validate returns, isValid is true exactly when no issue has
\* severity ERROR and completenessScore is at least 60.
C2_IsValidIffNoErrorAndComplete ==
  Validated =>
    (validation.is_valid <=>
       (\A i \in 1..Len(validation.issues) : validation.issues[i].severity # ERROR)
         /\ RLe(RInt(60), validation.completeness_score))

\* a valid result that carries a warning
C2_Witness == Validated /\ validation.is_valid /\ WarningCount > 0

\* the four terms of the completeness score as C3 states them
C3_CompanyFraction ==
  Rat(Cardinality({f \in {"name", "sector", "employees", "establishedYear"} : Populated(company[f])}), 4)

C3_LocationFraction(loc) ==
  Rat((IF Populated(loc.name) THEN 1 ELSE 0) + (IF Populated(loc.totalFloorArea) THEN 1 ELSE 0)
        + (IF UtilitiesTruthy(loc.utilities) THEN 1 ELSE 0), 3)

C3_LocationMean ==
  IF locations = <<>> THEN RInt(0)
  ELSE RDiv(RSumSeq([i \in 1..Len(locations) |-> C3_LocationFraction(locations[i])]),
            RInt(Len(locations)))

C3_AnsweredFraction ==
  IF answers = <<>> THEN RInt(0)
  ELSE Rat(Cardinality({q \in 1..Len(answers) :
                          /\ answers[q].t = "dict"
                          /\ Has(answers[q].answer)
                          /\ answers[q].answer # PyNone
                          /\ answers[q].answer # PyStr("")}), Len(answers))

C3_TaskFraction(fields) ==
  IF tasks = <<>> THEN RInt(0)
  ELSE Rat(Cardinality({i \in 1..Len(tasks) : \A f \in fields : Populated(tasks[i][f])}),
           Len(tasks))

C3_Expected(fields) ==
  RAdd(RAdd(RMul(RInt(25), C3_CompanyFraction), RMul(RInt(25), C3_LocationMean)),
       RAdd(RMul(RInt(30), C3_AnsweredFraction), RMul(RInt(20), C3_TaskFraction(fields))))

\* C3: completenessScore = 25 x company-field fraction + 25 x mean location-field
\* fraction + 30 x answered fraction + 20 x fraction of tasks with all their
\* required fields (title, category, status, priority) populated, within [0,100].
C3_Completeness ==
  Validated =>
    /\ validation.completeness_score = C3_Expected({"title", "category", "status", "priority"})
    /\ RLe(RInt(0), validation.completeness_score)
    /\ RLe(validation.completeness_score, RInt(100))

\* C4: qualityScore = completenessScore - 10 per ERROR - 3 per WARNING - 1 per
\* INFO, clamped to [0,100]: 0 when the penalties exceed the completeness.
C4_Penalties == 10 * ErrorCount + 3 * WarningCount + InfoCount

C4_Quality ==
  Validated =>
    LET raw == RSub(validation.completeness_score, RInt(C4_Penalties))
    IN  /\ validation.quality_score =
             (IF RLt(raw, RInt(0)) THEN RInt(0) ELSE IF RLt(RInt(100), raw) THEN RInt(100) ELSE raw)
        /\ RLe(validation.quality_score, RInt(100))
        /\ (RLt(validation.completeness_score, RInt(C4_Penalties)) => validation.quality_score = RInt(0))

\* penalties above a positive completeness: the lower clamp acts
C4_Witness ==
  /\ Validated
  /\ RLt(RInt(0), validation.completeness_score)
  /\ RLt(validation.completeness_score, RInt(C4_Penalties))
  /\ validation.quality_score = RInt(0)

\* the maximally complete, consistent input set of C5
C5_PositiveNumber(v) == v.t \in {"int", "float"} /\ v.n > 0

C5_CompanyOk ==
  /\ company.name.t = "str" /\ company.name.s # ""
  /\ company.sector.t = "str" /\ company.sector.s \in valid_sectors
  /\ C5_PositiveNumber(company.employees)
  /\ company.establishedYear.t = "int"
  /\ company.establishedYear.n >= 1900 /\ company.establishedYear.n <= 2024

C5_LocationOk(loc) ==
  /\ loc.name.t = "str" /\ loc.name.s # ""
  /\ C5_PositiveNumber(loc.totalFloorArea) /\ loc.totalFloorArea.n <= 1000000
  /\ loc.utilities.t = "dict"
  /\ \A k \in {"electricity", "water"} :
        loc.utilities.r[k].t = "dict" /\ C5_PositiveNumber(loc.utilities.r[k].mc)
  /\ \A k \in {"districtCooling", "naturalGas", "lpg"} :
        \/ loc.utilities.r[k].t = "absent"
        \/ /\ loc.utilities.r[k].t = "dict"
           /\ loc.utilities.r[k].mc.t \in {"int", "float"}
           /\ loc.utilities.r[k].mc.n >= 0

C5_AnswerOk(a) ==
  /\ a.t = "dict"
  /\ Has(a.question)
  /\ Has(a.answer) /\ a.answer # PyNone /\ a.answer # PyStr("")
  /\ a.frameworks.t = "list"
  /\ a.category.t = "str" /\ a.category.s \in {"environmental", "social", "governance"}

C5_TaskOk(task) ==
  /\ \A f \in {"title", "category", "status", "priority"} : Populated(task[f])
  /\ task.status.t = "str" /\ task.status.s \in {"completed", "in_progress", "to_do"}
  /\ (task.priority = PyStr("high") => task.status = PyStr("completed"))

C5_MaximalInput ==
  /\ C5_CompanyOk
  /\ locations # <<>> /\ \A i \in 1..Len(locations) : C5_LocationOk(locations[i])
  /\ LET area == SumSeq([i \in 1..Len(locations) |-> locations[i].totalFloorArea.n])
     IN  5 * company.employees.n <= area /\ area <= 100 * company.employees.n
  /\ answers # <<>> /\ \A q \in 1..Len(answers) : C5_AnswerOk(answers[q])
  /\ tasks # <<>> /\ \A i \in 1..Len(tasks) : C5_TaskOk(tasks[i])
  /\ 100 * Cardinality({i \in 1..Len(tasks) : tasks[i].status = PyStr("completed")}) >= 30 * Len(tasks)
  /\ \A q \in 1..Len(answers) : \A j \in 1..Len(answers[q].frameworks.l) :
        \E i \in 1..Len(tasks) :
          /\ tasks[i].frameworks.t = "list"
          /\ \E m \in 1..Len(tasks[i].frameworks.l) :
                tasks[i].frameworks.l[m] = answers[q].frameworks.l[j]

C6_FourEmptyInputs ==
  company = EmptyCompany /\ locations = <<>> /\ answers = <<>> /\ tasks = <<>>

\* C6: validating four empty inputs yields isValid = false with at least one
\* ERROR issue.
C6_EmptyInputsInvalid ==
  (C6_FourEmptyInputs /\ pc # "start") =>
    /\ Validated
    /\ ~ validation.is_valid
    /\ \E i \in 1..Len(validation.issues) : validation.issues[i].severity = ERROR

C6_Witness == C6_FourEmptyInputs /\ Validated

C7_ScenarioA ==
  /\ company = [name |-> Absent, sector |-> PyStr("hospitality"), employees |-> PyInt(50),
                 establishedYear |-> PyInt(2015)]
  /\ locations =
       <<[name |-> Absent, totalFloorArea |-> PyInt(1000),
          utilities |-> UDict([NoReadings EXCEPT !["electricity"] = Reading(PyInt(15000)),
                                                 !["water"] = Reading(PyInt(50))])]>>
  /\ answers = <<>>
  /\ tasks = <<>>

\* C7: with no answers and no tasks the result is invalid and completenessScore
\* is at most 50; for Scenario A completenessScore lies in [25,50].
C7_NoAnswersNoTasks ==
  /\ (answers = <<>> /\ tasks = <<>> /\ Validated) =>
        ~ validation.is_valid /\ RLe(validation.completeness_score, RInt(50))
  /\ (C7_ScenarioA /\ pc # "start") =>
        /\ Validated
        /\ ~ validation.is_valid
        /\ RLe(RInt(25), validation.completeness_score)
        /\ RLe(validation.completeness_score, RInt(50))

C7_Witness == C7_ScenarioA /\ Validated /\ validation.completeness_score = Rat(425, 12)

\* ========================================================================
\* Properties of the score engine (specification SpecScore)
\* ========================================================================
\* the answers and tasks of the category the helper was called for
CatAnswers == SelectSeq(answers, LAMBDA a : a.category = PyStr(category))
CatTasks == SelectSeq(tasks, LAMBDA x : x.category = PyStr(category))

WeightedMean(values, weights) ==
  Rat(SumSeq([i \in 1..Len(values) |-> values[i] * weights[i]]), SumSeq(weights))

FrameworkCount(x) == IF x.frameworks.t = "list" THEN Len(x.frameworks.l) ELSE 0
AtLeastOne(k) == IF k >= 1 THEN k ELSE 1

\* the value and weight of an answer as C9 states them
C9_Value(a) ==
  IF a.answer = PyBool(TRUE) \/ (a.answer.t = "str" /\ a.answer.s \notin {"", " ", "  "})
  THEN 100 ELSE 0
C9_Weight(a) == AtLeastOne(FrameworkCount(a))

C9_Expected(qs) ==
  WeightedMean([i \in 1..Len(qs) |-> C9_Value(qs[i])], [i \in 1..Len(qs) |-> C9_Weight(qs[i])])

\* the value and weight of a task as C10 states them
C10_Value(task) ==
  IF task.status = PyStr("completed") THEN 100
  ELSE IF task.status = PyStr("in_progress") THEN 50 ELSE 0
C10_PriorityWeight(task) ==
  CASE task.priority = PyStr("high") -> 3
    [] task.priority = PyStr("medium") -> 2
    [] task.priority = PyStr("low") -> 1
C10_Weight(task) == C10_PriorityWeight(task) * AtLeastOne(FrameworkCount(task))

C10_Expected(ts) ==
  WeightedMean([i \in 1..Len(ts) |-> C10_Value(ts[i])], [i \in 1..Len(ts) |-> C10_Weight(ts[i])])

\* every task of the category carries one of the three priorities
PrioritiesKnown ==
  \A i \in 1..Len(CatTasks) :
    CatTasks[i].priority \in {PyStr("high"), PyStr("medium"), PyStr("low")}

\* C8: the category score is 0 when no answer and no task has the category,
\* and otherwise 0.4 x questionScore + 0.6 x taskScore clamped to [0,100],
\* the sub-score of an empty side being 0.
C8_CategoryScore ==
  (pc = "category_scored" /\ PrioritiesKnown) =>
    LET q == IF CatAnswers = <<>> THEN RInt(0) ELSE C9_Expected(CatAnswers)
        t == IF CatTasks = <<>> THEN RInt(0) ELSE C10_Expected(CatTasks)
        raw == RAdd(RMul(Rat(4, 10), q), RMul(Rat(6, 10), t))
    IN  /\ (CatAnswers = <<>> /\ CatTasks = <<>>) => sub_score = RInt(0)
        /\ ~ (CatAnswers = <<>> /\ CatTasks = <<>>) =>
              sub_score = RMax(RInt(0), RMin(RInt(100), raw))

\* answered questions and a task in progress: 0.4 x 100 + 0.6 x 50
C8_Witness ==
  /\ pc = "category_scored"
  /\ PrioritiesKnown
  /\ CatAnswers # <<>>
  /\ CatTasks # <<>>
  /\ sub_score = RInt(70)

\* C9: questionScore over a non-empty set of answers is the weighted mean of
\* the per-answer values, weight max(1, number of frameworks), value 100 for
\* boolean true or non-blank text and 0 for anything else.
C9_QuestionScore ==
  (pc = "questions_scored" /\ CatAnswers # <<>>) => sub_score = C9_Expected(CatAnswers)

\* a blank text next to a true answer that carries two frameworks
C9_Witness ==
  /\ pc = "questions_scored"
  /\ Len(CatAnswers) = 2
  /\ \E i \in 1..2 : CatAnswers[i].answer = PyStr("  ")
  /\ \E i \in 1..2 : CatAnswers[i].answer = PyBool(TRUE) /\ FrameworkCount(CatAnswers[i]) = 2
  /\ sub_score = Rat(200, 3)

\* C10: taskScore over a non-empty set of tasks is the weighted mean of the
\* per-task values, weight priorityWeight x max(1, number of frameworks),
\* value 100 completed, 50 in progress, 0 for every other status.
C10_TaskScore ==
  (pc = "tasks_scored" /\ CatTasks # <<>> /\ PrioritiesKnown) => sub_score = C10_Expected(CatTasks)

\* a completed high-priority task next to a low-priority one pending review
C10_Witness ==
  /\ pc = "tasks_scored"
  /\ Len(CatTasks) = 2
  /\ \E i \in 1..2 : CatTasks[i].status = PyStr("pending_review") /\ CatTasks[i].priority = PyStr("low")
  /\ \E i \in 1..2 : CatTasks[i].status = PyStr("completed") /\ CatTasks[i].priority = PyStr("high")
  /\ sub_score = RInt(75)

\* C11: the overall score is environmental x w_env + social x w_soc +
\* governance x w_gov with the weights configured for the sector, and with
\* 0.40, 0.30, 0.30 for every sector that has no configured weights.
C11_Weights ==
  IF sector \in {"hospitality", "manufacturing", "construction", "healthcare", "education",
                 "logistics"}
  THEN sector_weights[sector]
  ELSE [environmental |-> 40, social |-> 30, governance |-> 30]

C11_OverallScore ==
  pc \in {"scored", "weighted"} =>
    scores.overall =
      RDiv(RAdd(RAdd(RMul(scores.environmental, RInt(C11_Weights.environmental)),
                     RMul(scores.social, RInt(C11_Weights.social))),
                RMul(scores.governance, RInt(C11_Weights.governance))),
           RInt(100))

\* a sector the validator accepts but that has no configured weights, scored
\* with three different category scores
C11_Witness ==
  /\ pc = "scored"
  /\ sector = "retail"
  /\ scores.environmental # scores.social
  /\ scores.social # scores.governance
  /\ RLt(RInt(0), scores.governance)

\* C12: the three weights of every configured sector and of the fallback
\* sum to 1.0, and the overall score lies in [0,100] for every triple of
\* category scores in [0,100].
C12_InRange(x) == RLe(RInt(0), x) /\ RLe(x, RInt(100))

C12_WeightsSumToOne ==
  /\ \A s \in Sectors :
       LET w == get_sector_weights(s)
       IN  w.environmental + w.social + w.governance = 100
  /\ pc \in {"scored", "weighted"} =>
       /\ C12_InRange(scores.environmental)
       /\ C12_InRange(scores.social)
       /\ C12_InRange(scores.governance)
       /\ C12_InRange(scores.overall)

\* a configured sector weighting three category scores at the top of the range
C12_Witness ==
  /\ pc = "weighted"
  /\ sector \in WeightedSectors
  /\ scores.environmental = RInt(100)
  /\ scores.social = RInt(100)
  /\ scores.governance = RInt(100)
  /\ scores.overall = RInt(100)


\* ========================================================================
\* Properties of calculate_carbon_footprint, calculate_compliance_rates and
\* compare_to_benchmarks (specification SpecMetrics)
\* ========================================================================
FootprintReturned == pc \in {"footprint", "compared"}

\* the monthly consumption of a utility kind at a location, 0 when the
\* location has no such kind
MonthlyOf(loc, kind) ==
  IF loc.utilities.t = "dict" /\ loc.utilities.r[kind].t = "dict"
       /\ Has(loc.utilities.r[kind].mc)
  THEN loc.utilities.r[kind].mc.n
  ELSE 0

SummedArea == SumSeq([i \in 1..Len(locations) |-> IF Has(locations[i].totalFloorArea)
                                                    THEN locations[i].totalFloorArea.n ELSE 0])

\* electricity of 15000 kWh a month and nothing else
ScenarioBLocation ==
  [name |-> PyStr("HQ"), totalFloorArea |-> PyInt(1200),
   utilities |-> Utilities(Reading(PyInt(15000)), ReadingAbsent, ReadingAbsent, ReadingAbsent,
                           ReadingAbsent)]

\* C13: scope1 is the sum over locations of (monthly natural gas x 12 x 2.75
\* + monthly LPG x 12 x 3.03)/1000 and scope2 the sum over locations of
\* (monthly electricity x 12 x 0.469 + monthly district cooling x 12 x
\* 0.385)/1000; an absent kind contributes 0 and water nothing; electricity
\* of 15000 kWh a month alone gives scope2 = 84.42 and scope1 = 0.
C13_Scopes ==
  FootprintReturned =>
    /\ footprint.scope1 =
         Rat(SumSeq([i \in 1..Len(locations) |->
                      MonthlyOf(locations[i], "naturalGas") * 12 * 275
                        + MonthlyOf(locations[i], "lpg") * 12 * 303]), 100 * 1000)
    /\ footprint.scope2 =
         Rat(SumSeq([i \in 1..Len(locations) |->
                      MonthlyOf(locations[i], "electricity") * 12 * 469
                        + MonthlyOf(locations[i], "districtCooling") * 12 * 385]), 1000 * 1000)
    /\ locations = <<ScenarioBLocation>> =>
         footprint.scope2 = Rat(8442, 100) /\ footprint.scope1 = RInt(0)

\* two locations, one burning gas and LPG and drawing district cooling
C13_Witness ==
  /\ pc = "footprint"
  /\ Len(locations) = 2
  /\ locations[1] = ScenarioBLocation
  /\ MonthlyOf(locations[2], "naturalGas") = 1000
  /\ MonthlyOf(locations[2], "lpg") = 100
  /\ MonthlyOf(locations[2], "districtCooling") = 100
  /\ MonthlyOf(locations[2], "water") = 30
  /\ footprint.scope1 = Rat(36636, 1000)
  /\ footprint.scope2 = Rat(141162, 1000)

\* C14 as stated: emissionsPerSqm is total/(summed area) and 0 when the
\* summed area is 0, emissionsPerEmployee is total/employees and 0 when
\* employees is 0, and an empty location list gives five zeros.
C14_IntensitiesAsStated ==
  FootprintReturned =>
    /\ footprint.emissions_per_sqm =
         IF SummedArea = 0 THEN RInt(0) ELSE RDivInt(footprint.total_annual, SummedArea)
    /\ Has(company.employees) =>
         footprint.emissions_per_employee =
           IF company.employees.n = 0 THEN RInt(0)
           ELSE RDivInt(footprint.total_annual, company.employees.n)
    /\ locations = <<>> => footprint = NoFootprint

\* C14: the footprint never divides by zero: emissionsPerSqm is
\* total/(summed area) for a positive summed area and 0 for a summed area of
\* 0 or less, emissionsPerEmployee is total/employees for a positive number
\* of employees and 0 for 0 or fewer, and an empty location list gives five
\* zeros.
C14_IntensitiesGuarded ==
  FootprintReturned =>
    /\ footprint.emissions_per_sqm =
         IF SummedArea <= 0 THEN RInt(0) ELSE RDivInt(footprint.total_annual, SummedArea)
    /\ Has(company.employees) =>
         footprint.emissions_per_employee =
           IF company.employees.n <= 0 THEN RInt(0)
           ELSE RDivInt(footprint.total_annual, company.employees.n)
    /\ locations = <<>> => footprint = NoFootprint

\* emissions over no area and no employees
C14_Witness ==
  /\ pc = "footprint"
  /\ locations # <<>>
  /\ SummedArea = 0
  /\ company.employees = PyInt(0)
  /\ RLt(RInt(0), footprint.total_annual)
  /\ footprint.emissions_per_sqm = RInt(0)
  /\ footprint.emissions_per_employee = RInt(0)

\* the locations with the monthly consumption of one utility kind at one
\* location raised by d (a kind the location lacks counts as 0)
C15_Increments == {1, 5000}

C15_Raised(i, kind, d) ==
  [locations EXCEPT ![i].utilities =
     IF @.t = "dict"
     THEN UDict([@.r EXCEPT ![kind] = Reading(PyInt(MonthlyOf(locations[i], kind) + d))])
     ELSE UDict([NoReadings EXCEPT ![kind] = Reading(PyInt(d))])]

C15_NotBelow(f, g) ==
  /\ RLe(f.scope1, g.scope1)
  /\ RLe(f.scope2, g.scope2)
  /\ RLe(f.total_annual, g.total_annual)
  /\ RLe(f.emissions_per_sqm, g.emissions_per_sqm)
  /\ RLe(f.emissions_per_employee, g.emissions_per_employee)

\* C15: raising the monthly consumption of any utility kind at any location,
\* every other input fixed, never lowers scope1, scope2, totalAnnual,
\* emissionsPerSqm or emissionsPerEmployee.
C15_Monotonic ==
  pc = "footprint" =>
    \A i \in 1..Len(locations), kind \in UtilityKinds, d \in C15_Increments :
      locations[i].utilities.t # "dict" \/ locations[i].utilities.r[kind].t # "other" =>
        \A g \in {calculate_carbon_footprint(C15_Raised(i, kind, d), company)} :
          C15_NotBelow(footprint, g)

\* more district cooling at a site with floor area and staff raises scope2,
\* the total and both intensities
C15_Witness ==
  /\ pc = "footprint"
  /\ Len(locations) = 2
  /\ MonthlyOf(locations[2], "districtCooling") = 100
  /\ SummedArea > 0
  /\ \E g \in {calculate_carbon_footprint(C15_Raised(2, "districtCooling", 1), company)} :
         /\ RLt(footprint.scope2, g.scope2)
         /\ RLt(footprint.total_annual, g.total_annual)
         /\ RLt(footprint.emissions_per_sqm, g.emissions_per_sqm)
         /\ RLt(footprint.emissions_per_employee, g.emissions_per_employee)
         /\ footprint.scope1 = g.scope1

\* the tasks that reference framework f
C16_Referencing(f) ==
  {i \in 1..Len(tasks) : \E k \in 1..Len(tasks[i].frameworks.l) : tasks[i].frameworks.l[k] = f}

C16_Completed(f) == {i \in C16_Referencing(f) : tasks[i].status = PyStr("completed")}

\* C16: complianceRates returns one record per entry of the framework list,
\* in the input order; the record of f has total = the number of tasks whose
\* frameworks contain f, completed = the number of those with status
\* completed and rate = 100 x completed/total, or three zeros when no task
\* references f; all referencing tasks completed gives 100, 3 of 4 gives 75.
C16_ComplianceRates ==
  pc = "rated" =>
    /\ Len(rates) = Len(frameworks)
    /\ \A k \in 1..Len(frameworks) :
         LET f == frameworks[k]
             total == Cardinality(C16_Referencing(f))
             completed == Cardinality(C16_Completed(f))
         IN  /\ rates[k].framework = f
             /\ rates[k].total = total
             /\ rates[k].completed = completed
             /\ rates[k].rate = IF total = 0 THEN RInt(0) ELSE Rat(100 * completed, total)
             /\ total > 0 /\ completed = total => rates[k].rate = RInt(100)
             /\ total = 4 /\ completed = 3 => rates[k].rate = RInt(75)

\* Scenario C followed by a framework no task references
C16_Witness ==
  /\ pc = "rated"
  /\ tasks = ScenarioCTasks
  /\ frameworks = <<"DST", "ISO">>
  /\ rates = <<[framework |-> "DST", rate |-> RInt(75), completed |-> 3, total |-> 4],
               [framework |-> "ISO", rate |-> RInt(0), completed |-> 0, total |-> 0]>>

ComparisonFields ==
  {comparison.electricity_performance, comparison.water_performance,
   comparison.carbon_performance, comparison.overall_ranking}

HasBenchmarkTable ==
  sector \in {"hospitality", "manufacturing", "construction", "education", "healthcare",
              "logistics"}

\* C17: compare returns "unknown" for electricity, water, carbon and the
\* overall ranking exactly when the sector has no benchmark table or the
\* summed floor area is 0; in every other case none of the four is "unknown".
C17_UnknownExactlyWhen ==
  pc = "compared" =>
    IF ~ HasBenchmarkTable \/ SummedArea = 0
    THEN ComparisonFields = {"unknown"}
    ELSE "unknown" \notin ComparisonFields

\* a benchmarked sector whose locations have consumption but no floor area
C17_Witness ==
  /\ pc = "compared"
  /\ HasBenchmarkTable
  /\ locations # <<>>
  /\ SummedArea = 0
  /\ RLt(RInt(0), footprint.total_annual)
  /\ ComparisonFields = {"unknown"}

C18_Classify(value, bands) ==
  IF RLe(value, RInt(bands.efficient)) THEN "efficient"
  ELSE IF RLe(value, RInt(bands.average)) THEN "average"
  ELSE "inefficient"

C18_ElectricityIntensity ==
  RDivInt(RInt(SumSeq([i \in 1..Len(locations) |-> MonthlyOf(locations[i], "electricity") * 12])),
          SummedArea)

C18_WaterIntensity ==
  RDivInt(RInt(SumSeq([i \in 1..Len(locations) |-> MonthlyOf(locations[i], "water") * 12])
                * 1000),
          SummedArea)

\* C18: with a benchmark table and a summed area other than 0, electricity
\* intensity = sum(monthly electricity x 12)/sum(area), water intensity =
\* sum(monthly water x 12) x 1000/sum(area) and carbon intensity =
\* emissionsPerSqm x 1000 are each classified against the sector's bands: at
\* most the efficient band "efficient", otherwise at most the average band
\* "average", otherwise "inefficient", the boundaries inclusive.
C18_Classification ==
  pc = "compared" /\ HasBenchmarkTable /\ SummedArea # 0 =>
    LET bands == SECTOR_BENCHMARKS[sector]
    IN  /\ comparison.electricity_performance =
             C18_Classify(C18_ElectricityIntensity, bands.electricity_intensity)
        /\ comparison.water_performance =
             C18_Classify(C18_WaterIntensity, bands.water_intensity)
        /\ comparison.carbon_performance =
             C18_Classify(RMul(footprint.emissions_per_sqm, RInt(1000)), bands.carbon_intensity)

\* electricity exactly on the efficient band and water exactly on the
\* average band of the sector
C18_Witness ==
  /\ pc = "compared"
  /\ HasBenchmarkTable
  /\ SummedArea > 0
  /\ C18_ElectricityIntensity = RInt(SECTOR_BENCHMARKS[sector].electricity_intensity.efficient)
  /\ C18_WaterIntensity = RInt(SECTOR_BENCHMARKS[sector].water_intensity.average)
  /\ comparison.electricity_performance = "efficient"
  /\ comparison.water_performance = "average"

C19_Metrics ==
  <<comparison.electricity_performance, comparison.water_performance,
    comparison.carbon_performance>>

C19_Points(perf) == IF perf = "efficient" THEN 3 ELSE IF perf = "average" THEN 2 ELSE 1

C19_Number(perf) == Cardinality({k \in 1..3 : C19_Metrics[k] = perf})

\* C19: with the three classifications known, efficient counts 3, average 2
\* and inefficient 1; a mean of at least 2.5 ranks "efficient", otherwise a
\* mean of at least 1.5 "average", otherwise "inefficient"; so "efficient"
\* needs two efficient metrics and no inefficient one, "inefficient" two
\* inefficient metrics and no efficient one.
C19_OverallRanking ==
  pc = "compared" /\ "unknown" \notin {C19_Metrics[k] : k \in 1..3} =>
    LET total == C19_Points(C19_Metrics[1]) + C19_Points(C19_Metrics[2])
                   + C19_Points(C19_Metrics[3])
    IN  /\ comparison.overall_ranking =
             IF 2 * total >= 5 * 3 THEN "efficient"
             ELSE IF 2 * total >= 3 * 3 THEN "average"
             ELSE "inefficient"
        /\ comparison.overall_ranking = "efficient" =>
             C19_Number("efficient") >= 2 /\ C19_Number("inefficient") = 0
        /\ comparison.overall_ranking = "inefficient" =>
             C19_Number("inefficient") >= 2 /\ C19_Number("efficient") = 0

\* one efficient and two average metrics rank average
C19_Witness ==
  /\ pc = "compared"
  /\ C19_Number("efficient") = 1
  /\ C19_Number("average") = 2
  /\ comparison.overall_ranking = "average"

\* ========================================================================
\* Properties of generate_report (specification SpecReport)
\* ========================================================================
\* C20: for every input set that validate turns into a ValidationResult,
\* score, footprint, complianceRates and compare each return a result and
\* never raise.
C20_AssessmentProducible == pc # "raised"

\* ========================================================================
\* Repeated validation (specification SpecRepeat): the caller validates the
\* same four collections a second time
\* ========================================================================
\* answers and tasks that carry up to three framework tags
TaggedAnswers ==
  {[GoodAnswer EXCEPT !.frameworks = FList(f)] :
     f \in {<<"DST">>, <<"DST", "GK">>, <<"GK", "DST">>, <<"DST", "GK", "Green Key">>}}
TaggedTasks ==
  {[GoodTask EXCEPT !.frameworks = f] :
     f \in {FAbsent, FList(<<"DST">>), FList(<<"ISO">>)}}

InitRepeat ==
  /\ company \in CompanyThin
  /\ locations \in LocationsThin
  /\ answers \in SeqsUpTo(TaggedAnswers, MaxAnswers)
  /\ tasks \in SeqsUpTo(TaggedTasks, MaxTasks)
  /\ sector = ""
  /\ frameworks = <<>>
  /\ footprint = NoFootprint
  /\ rates = <<>>
  /\ comparison = NoComparison
  /\ pc = "start"
  /\ validation = NoValidation
  /\ category = ""
  /\ sub_score = RInt(0)
  /\ scores = NoScores

\* a second call of validate_report_data on the same, unmodified inputs
Revalidate ==
  /\ pc = "validated"
  /\ validation' \in validate_report_data_outcomes(company, locations, answers, tasks)
  /\ pc' = IF validation'.raised THEN "raised" ELSE "revalidated"
  /\ UNCHANGED <<frameworks, footprint, rates, comparison, company, locations, answers, tasks, sector, category, sub_score, scores>>

NextRepeat ==
  \/ Validate
  \/ Revalidate

SpecRepeat == InitRepeat /\ [][NextRepeat]_vars

\* C21: two calls of validate on deep-equal inputs return identical results,
\* including the order of the issues list and the value each issue carries
\* (the list of frameworks missing from tasks).
C21_Deterministic ==
  [][pc = "validated" /\ pc' = "revalidated" => validation' = validation]_vars

\* ========================================================================
\* Further properties of generate_report (specification SpecReport)
\* ========================================================================
\* success of the call so far: no step after validation has raised
ReportSucceeding == pc # "raised"

\* C23: the validator is advisory only: once validate has returned, the
\* scores, footprint, compliance rates and comparison are computed and the
\* call succeeds, whether isValid is true or false.
C23_AdvisoryOnly ==
  /\ (pc \notin {"start", "rejected"} /\ validation.is_valid) => ReportSucceeding
  /\ (pc \notin {"start", "rejected"} /\ ~ validation.is_valid) => ReportSucceeding

\* ========================================================================
\* Further properties of validate_report_data (specification Spec)
\* ========================================================================
\* the status values of a task record
TaskStatus == {"todo", "in_progress", "pending_review", "completed"}

HasIssue(issue) == \E k \in 1..Len(validation.issues) : validation.issues[k] = issue

InvalidStatusWarning(i) ==
  ValidationIssue(WARNING, "tasks", i - 1, <<"status">>, "Invalid task status")

\* C24: a task gets the invalid-status WARNING exactly when its status is
\* none of the task record statuses todo, in_progress, pending_review and
\* completed.
C24_InvalidStatusWarning ==
  pc = "validated" =>
    \A i \in 1..Len(tasks) :
      HasIssue(InvalidStatusWarning(i))
        <=> ~ (tasks[i].status.t = "str" /\ tasks[i].status.s \in TaskStatus)

FrameworkInfo ==
  ValidationIssue(INFO, "consistency", -1, <<"frameworks">>, "Some frameworks from answers not found in tasks")

\* C25: the framework-consistency INFO is reported exactly when some
\* framework tagged on an answer is tagged on no task, also when the tasks
\* carry no framework at all or there is no task.
C25_FrameworkInfo ==
  pc = "validated" =>
    (HasIssue(FrameworkInfo) <=> answer_frameworks(answers) \ task_frameworks(tasks) # {})

\* C26: whenever validate returns, qualityScore is 100 exactly when the
\* issues list is empty, an empty issues list implies completenessScore 100,
\* and qualityScore never exceeds completenessScore.
C26_QualityAndIssues ==
  pc = "validated" =>
    /\ validation.quality_score = RInt(100) <=> validation.issues = <<>>
    /\ validation.issues = <<>> => validation.completeness_score = RInt(100)
    /\ RLe(validation.quality_score, validation.completeness_score)

\* a complete input whose only issue is an INFO
C26_Witness ==
  /\ pc = "validated"
  /\ validation.completeness_score = RInt(100)
  /\ Len(validation.issues) = 1
  /\ validation.issues[1].severity = INFO
  /\ validation.quality_score = RInt(100 - InfoPenalty)

\* ========================================================================
\* Further properties of calculate_esg_score (specification SpecScore)
\* ========================================================================
ScoresReturned == pc \in {"scored", "weighted"}

LowestCategoryScore == RMin(scores.environmental, RMin(scores.social, scores.governance))
HighestCategoryScore == RMax(scores.environmental, RMax(scores.social, scores.governance))

ResourceCategories == {"energy", "water", "waste", "supply_chain"}

ProgressTasks ==
  [title : {PyStr("T")}, category : {PyStr("environmental")},
   status : {PyStr("to_do"), PyStr("todo"), PyStr("in_progress"), PyStr("completed")},
   priority : {PyStr("high"), PyStr("low")},
   frameworks : {FList(<<"DST">>), FList(<<"DST", "GK">>)}]
    \cup {[GoodTask EXCEPT !.category = PyStr("social"), !.status = PyStr("in_progress")]}

ResourceTasks ==
  {[GoodTask EXCEPT !.category = PyStr(c), !.status = PyStr(st)] :
     c \in ResourceCategories, st \in {"to_do", "in_progress", "completed"}}

InitProgress ==
  /\ answers \in {<<>>, <<GoodAnswer>>}
  /\ tasks \in SeqsUpTo(ProgressTasks, MaxTasks)
  /\ sector \in {"hospitality", "retail"}
  /\ frameworks = <<"DST", "GK", "ISO">>
  /\ company = GoodCompany
  /\ locations = <<>>
  /\ footprint = NoFootprint
  /\ rates = <<>>
  /\ comparison = NoComparison
  /\ pc = "start"
  /\ validation = NoValidation
  /\ category = ""
  /\ sub_score = RInt(0)
  /\ scores = NoScores

\* calculate_esg_score and calculate_compliance_rates on the tasks t
Reassess(t, next) ==
  /\ tasks' = t
  /\ scores' = calculate_esg_score(answers, t, sector)
  /\ rates' = calculate_compliance_rates(t, frameworks)
  /\ pc' = IF scores'.raised THEN "raised" ELSE next
  /\ UNCHANGED <<company, locations, answers, sector, frameworks, validation, category,
                 sub_score, footprint, comparison>>

Assessed == pc \in {"assessed", "reassessed", "edited"}

Assess ==
  /\ pc = "start"
  /\ Reassess(tasks, "assessed")

\* the statuses a task can advance to
NextStatuses(task) ==
  IF StatusIs(task, "to_do") \/ StatusIs(task, "todo") THEN {"in_progress", "completed"}
  ELSE IF StatusIs(task, "in_progress") THEN {"completed"}
  ELSE {}

\* one task advances and the caller assesses again
TaskProgress ==
  /\ Assessed
  /\ \E i \in 1..Len(tasks) : \E st \in NextStatuses(tasks[i]) :
       Reassess([tasks EXCEPT ![i].status = PyStr(st)], "reassessed")

RemoveAt(t, i) == SubSeq(t, 1, i - 1) \o SubSeq(t, i + 1, Len(t))

IsResourceTask(task) == \E c \in ResourceCategories : CategoryIs(task, c)

\* a task of a resource category is added, removed or changes its status,
\* and the caller assesses again
ResourceTaskEdit ==
  /\ Assessed
  /\ \/ /\ Len(tasks) < MaxTasks
        /\ \E task \in ResourceTasks : Reassess(Append(tasks, task), "edited")
     \/ \E i \in 1..Len(tasks) :
          /\ IsResourceTask(tasks[i])
          /\ Reassess(RemoveAt(tasks, i), "edited")
     \/ \E i \in 1..Len(tasks) : \E st \in {"to_do", "in_progress", "completed"} :
          /\ IsResourceTask(tasks[i])
          /\ ~ StatusIs(tasks[i], st)
          /\ Reassess([tasks EXCEPT ![i].status = PyStr(st)], "edited")

NextProgress ==
  \/ Assess
  \/ TaskProgress
  \/ ResourceTaskEdit

SpecProgress == InitProgress /\ [][NextProgress]_vars

\* ========================================================================
\* Properties of task progress (specification SpecProgress)
\* ========================================================================
\* new is old with its status advanced from to-do to in-progress or
\* completed, or from in-progress to completed
TaskAdvances(old, new) ==
  /\ new.status.t = "str"
  /\ new.status.s \in NextStatuses(old)
  /\ new = [old EXCEPT !.status = new.status]

\* this step advances exactly one task and leaves everything else fixed
OneTaskAdvanced ==
  /\ Assessed
  /\ pc' = "reassessed"
  /\ answers' = answers /\ sector' = sector /\ frameworks' = frameworks
  /\ Len(tasks') = Len(tasks)
  /\ \E i \in 1..Len(tasks) :
       /\ TaskAdvances(tasks[i], tasks'[i])
       /\ \A j \in 1..Len(tasks) : j # i => tasks'[j] = tasks[j]

\* C28: when one task advances and everything else stays fixed, no category
\* score, not the overall score and no framework's compliance rate goes down.
C28_ProgressNeverLowers ==
  [][OneTaskAdvanced =>
       /\ RLe(scores.environmental, scores'.environmental)
       /\ RLe(scores.social, scores'.social)
       /\ RLe(scores.governance, scores'.governance)
       /\ RLe(scores.overall, scores'.overall)
       /\ \A k \in 1..Len(frameworks) : RLe(rates[k].rate, rates'[k].rate)]_vars

\* after progress: a started task next to a completed one, which shares a
\* framework with it
C28_Witness ==
  /\ pc = "reassessed"
  /\ Len(tasks) = 2
  /\ StatusIs(tasks[1], "completed")
  /\ StatusIs(tasks[2], "in_progress")
  /\ RLt(RInt(0), scores.environmental)
  /\ RLt(scores.environmental, RInt(100))
  /\ rates[1].rate = RInt(50)

\* this step adds, removes or changes the status of one task of a resource
\* category and leaves everything else fixed
ResourceTaskEdited ==
  /\ Assessed
  /\ pc' = "edited"
  /\ answers' = answers /\ sector' = sector
  /\ \/ \E task \in ResourceTasks : tasks' = Append(tasks, task)
     \/ \E i \in 1..Len(tasks) : IsResourceTask(tasks[i]) /\ tasks' = RemoveAt(tasks, i)
     \/ \E i \in 1..Len(tasks) :
          /\ IsResourceTask(tasks[i])
          /\ tasks'[i].status # tasks[i].status
          /\ tasks' = [tasks EXCEPT ![i].status = tasks'[i].status]

\* C30: adding, removing or changing the status of a task whose category is
\* energy, water, waste or supply-chain leaves all four ESG scores unchanged.
C30_ResourceTasksIgnored ==
  [][ResourceTaskEdited => scores' = scores]_vars

\* after such an edit: a completed energy task next to an environmental task
\* that is not completed
C30_Witness ==
  /\ pc = "edited"
  /\ \E i \in 1..Len(tasks) : CategoryIs(tasks[i], "energy") /\ StatusIs(tasks[i], "completed")
  /\ \E i \in 1..Len(tasks) :
       CategoryIs(tasks[i], "environmental") /\ StatusIs(tasks[i], "in_progress")
  /\ RLt(scores.environmental, RInt(100))

\* ========================================================================
\* Sectors of the validator and of the comparator (specification SpecReport)
\* ========================================================================
SectorWarning ==
  ValidationIssue(WARNING, "company", -1, <<"sector">>, "Sector not recognized for benchmarking")

\* C29: for every sector that validate accepts without the "Sector not
\* recognized for benchmarking" warning, compare has a benchmark table: with
\* a positive summed floor area it returns no "unknown" classification.
C29_SectorsAgree ==
  (/\ pc = "report_compared"
   /\ Has(company.sector)
   /\ ~ HasIssue(SectorWarning)
   /\ SummedArea > 0)
    => "unknown" \notin ComparisonFields

====
